---------------------------- MODULE Spec2Model ----------------------------
(***************************************************************************)
(* Model of boltzgen/internal.py: the internal-coordinate transform of a   *)
(* Boltzmann generator.                                                    *)
(*                                                                         *)
(*   topological_sort                      the dependency sort of a        *)
(*                                         z-matrix                        *)
(*   InternalCoordinateTransform           construction (_setup_indices,   *)
(*                                         _validate_data, statistics),    *)
(*                                         forward, inverse                *)
(*   CompleteInternalCoordinateTransform   construction, forward, inverse  *)
(*                                                                         *)
(* Python lists are sequences (1-based here, 0-based in the source: an     *)
(* index i of the source is i + 1 of a sequence), tensors indexed by atom  *)
(* are functions over 0 .. n_atoms - 1, a dict is the sequence of its      *)
(* items in insertion order.                                               *)
(***************************************************************************)
EXTENDS Integers, Sequences, FiniteSets, TLC

(***************************************************************************)
(* Bounds of the model.                                                    *)
(***************************************************************************)
\* Number of atoms of the molecules whose index setup is explored.
NAtoms == 5

\* math.pi, in the angle unit of the model.
PiUnits == 4

\* The longest way, in quarter turns, a dihedral handed to inverse lies off
\* its mean.
MaxTurns == 7

\* Longest z-matrix explored by the index setup: one entry per atom that is
\* not one of three anchors.
MaxZ == NAtoms - 3

VARIABLES
    pc,                \* position of the program (a step name or an exception)
    dims,              \* self.dims
    z_indices,         \* argument z_indices: << <<atom, <<r1, r2, r3>>>>, ... >>
    cart_indices,      \* argument cart_indices
    graph_unsorted,    \* topological_sort: the dict of unresolved nodes
    graph_sorted,      \* topological_sort: the result list
    sorted_z_indices,  \* _setup_indices: rows [atom1, atom2, atom3, atom4] left to place
    all_cart,          \* _setup_indices: atoms available in cartesian form
    current_cart_ind,  \* _setup_indices: next free row of the cartesian buffer
    blocks,            \* _setup_indices: the blocks built so far
    rev_perm,          \* self.rev_perm
    rev_perm_inv,      \* self.rev_perm_inv
    idx,               \* the index buffers registered by _setup_indices
    mode,              \* the class under construction: "ict" or "complete"
    data,              \* argument data: "None" or [shape, rows]
    default_std,       \* argument default_std
    ind_circ_dih,      \* argument ind_circ_dih
    stats,             \* the statistics buffers of InternalCoordinateTransform
    cstats,            \* the buffers of CompleteInternalCoordinateTransform
    angle_loss,        \* self.angle_loss: << >> while the attribute is not set
    ret                \* the last call of forward or inverse and what it returned

setupVars == <<dims, z_indices, cart_indices, graph_unsorted, graph_sorted,
               sorted_z_indices, all_cart, current_cart_ind, blocks, rev_perm,
               rev_perm_inv, idx>>

objVars == <<mode, data, default_std, ind_circ_dih, stats, cstats, angle_loss, ret>>

vars == <<pc, setupVars, objVars>>

(***************************************************************************)
(* Helpers for Python containers.                                          *)
(***************************************************************************)
Range(s) == {s[i] : i \in 1 .. Len(s)}

\* The keys of a dict, as a set.
Keys(d) == {d[i][1] : i \in 1 .. Len(d)}

\* d[k] = v of a Python dict: a new key goes last, an existing key keeps its
\* place and takes the new value.
DictSet(d, k, v) ==
    IF k \in Keys(d)
    THEN [i \in 1 .. Len(d) |-> IF d[i][1] = k THEN <<k, v>> ELSE d[i]]
    ELSE Append(d, <<k, v>>)

RECURSIVE DictFrom(_, _)
DictFrom(items, d) ==
    IF items = <<>> THEN d
    ELSE DictFrom(Tail(items), DictSet(d, Head(items)[1], Head(items)[2]))

\* dict(items) for a list of (key, value) pairs.
dict(items) == DictFrom(items, <<>>)

\* del d[k]
DictDel(d, k) == SelectSeq(d, LAMBDA it : it[1] # k)

\* list(reversed(s))
reversed(s) == [i \in 1 .. Len(s) |-> s[Len(s) + 1 - i]]

\* The list of the items f[1], ..., f[n] of a list comprehension f.
List(f) == f \o <<>>

\* torch.zeros(n, dtype=torch.long)
zeros(n) == [i \in 0 .. n - 1 |-> 0]

(***************************************************************************)
(* topological_sort (internal.py 441-459).                                 *)
(***************************************************************************)
\* Mutant of NoUnresolvedEdge: only the first reference is looked up.
NoUnresolvedEdgeFirstOnly(edges, graph) ==
    edges[1] \notin Keys(graph)

\* for edge in edges: if edge in graph_unsorted: break / else: the node has no
\* unresolved edge
NoUnresolvedEdge(edges, graph) ==
    \A j \in 1 .. Len(edges) : edges[j] \notin Keys(graph)

\* The for loop of one pass over the snapshot list(graph_unsorted.items()):
\* st = [graph, sorted, acyclic] after the items from position i on.
RECURSIVE SortScan(_, _, _)
SortScan(snapshot, i, st) ==
    IF i > Len(snapshot) THEN st
    ELSE LET node == snapshot[i][1]
             edges == snapshot[i][2]
         IN  IF NoUnresolvedEdge(edges, st.graph)
             THEN SortScan(snapshot, i + 1,
                      [graph |-> DictDel(st.graph, node),
                       sorted |-> Append(st.sorted, <<node, edges>>),
                       acyclic |-> TRUE])
             ELSE SortScan(snapshot, i + 1, st)

\* Mutant of TopoPass: a pass that removed nothing ends the loop, and the
\* atoms sorted so far are returned.
TopoPassReturnsPartial ==
    /\ pc = "topological_sort"
    /\ graph_unsorted # <<>>
    /\ LET st == SortScan(graph_unsorted, 1,
                     [graph |-> graph_unsorted, sorted |-> graph_sorted,
                      acyclic |-> FALSE])
       IN  /\ graph_unsorted' = IF st.acyclic THEN st.graph ELSE <<>>
           /\ graph_sorted' = st.sorted
    /\ UNCHANGED <<pc, dims, z_indices, cart_indices, sorted_z_indices, all_cart,
                   current_cart_ind, blocks, rev_perm, rev_perm_inv, idx>>
    /\ UNCHANGED objVars

\* One iteration of `while graph_unsorted:`; raises when the pass removed
\* nothing.
TopoPass ==
    /\ pc = "topological_sort"
    /\ graph_unsorted # <<>>
    /\ LET st == SortScan(graph_unsorted, 1,
                     [graph |-> graph_unsorted, sorted |-> graph_sorted,
                      acyclic |-> FALSE])
       IN  IF st.acyclic
           THEN /\ graph_unsorted' = st.graph
                /\ graph_sorted' = st.sorted
                /\ pc' = pc
           ELSE /\ pc' = "RuntimeError"
                /\ UNCHANGED <<graph_unsorted, graph_sorted>>
    /\ UNCHANGED <<dims, z_indices, cart_indices, sorted_z_indices, all_cart,
                   current_cart_ind, blocks, rev_perm, rev_perm_inv, idx>>
    /\ UNCHANGED objVars

(***************************************************************************)
(* InternalCoordinateTransform._setup_indices (internal.py 327-421).       *)
(***************************************************************************)
n_atoms == dims \div 3

\* self.inds_for_atom[i]
inds_for_atom(i) == <<3 * i, 3 * i + 1, 3 * i + 2>>

\* [[item[0], item[1][0], item[1][1], item[1][2]] for item in sorted]
FlatRows(sorted) ==
    [i \in 1 .. Len(sorted) |->
        <<sorted[i][1], sorted[i][2][1], sorted[i][2][2], sorted[i][2][3]>>]

\* for i, j in enumerate(mod): atom_to_stats[j] = i
RECURSIVE AtomToStats(_, _, _)
AtomToStats(mod, i, a) ==
    IF i > Len(mod) THEN a
    ELSE AtomToStats(mod, i + 1, [a EXCEPT ![mod[i]] = i - 1])

\* for i, j in enumerate(cart_indices): rev_perm[i] = j; rev_perm_inv[j] = i
RECURSIVE AnchorPerm(_, _, _)
AnchorPerm(cart, i, p) ==
    IF i > Len(cart) THEN p
    ELSE AnchorPerm(cart, i + 1,
             [perm |-> [p.perm EXCEPT ![i - 1] = cart[i]],
              inv |-> [p.inv EXCEPT ![cart[i]] = i - 1]])

\* The value the loop variable i holds at line 387: the last index of the
\* last loop over a non-empty range that used it.
LastLoopIndex(cart, mod, n) ==
    IF cart # <<>> THEN Len(cart) - 1
    ELSE IF mod # <<>> THEN Len(mod) - 1
    ELSE n - 1

\* The sort has returned: lines 336-388, all of _setup_indices before the
\* block loop.
SetupIndices ==
    /\ pc = "topological_sort"
    /\ graph_unsorted = <<>>
    /\ LET rows == FlatRows(graph_sorted)
           mod == [i \in 1 .. Len(rows) |-> rows[i][1]]
           p == AnchorPerm(cart_indices, 1,
                    [perm |-> zeros(n_atoms), inv |-> zeros(n_atoms)])
       IN  /\ sorted_z_indices' = rows
           /\ idx' = [rev_z_indices |-> reversed(rows),
                      bond_indices |-> [i \in 1 .. Len(mod) |-> inds_for_atom(mod[i])[1]],
                      angle_indices |-> [i \in 1 .. Len(mod) |-> inds_for_atom(mod[i])[2]],
                      dih_indices |-> [i \in 1 .. Len(mod) |-> inds_for_atom(mod[i])[3]],
                      atom_to_stats |-> AtomToStats(mod, 1, zeros(n_atoms)),
                      init_cart_indices |->
                          [k \in 1 .. 3 * Len(cart_indices) |->
                              inds_for_atom(cart_indices[((k - 1) \div 3) + 1])[((k - 1) % 3) + 1]]]
           /\ rev_perm' = p.perm
           /\ rev_perm_inv' = p.inv
           /\ all_cart' = Range(cart_indices)
           /\ current_cart_ind' = LastLoopIndex(cart_indices, mod, n_atoms) + 1
           /\ blocks' = <<>>
    /\ pc' = "blocks"
    /\ UNCHANGED <<dims, z_indices, cart_indices, graph_unsorted, graph_sorted>>
    /\ UNCHANGED objVars

\* Mutant of BlockScan: an atom counts as available as soon as it is placed,
\* within the pass that places it.
RECURSIVE BlockScanEager(_, _, _, _)
BlockScanEager(rows, i, cart, st) ==
    IF i > Len(rows) \/ st.err THEN st
    ELSE LET atom1 == rows[i][1]
             avail == cart \cup st.next_cart
         IN  IF rows[i][2] \in avail /\ rows[i][3] \in avail /\ rows[i][4] \in avail
             THEN IF st.cci \notin DOMAIN st.perm
                  THEN [st EXCEPT !.err = TRUE]
                  ELSE LET inv == [st.inv EXCEPT ![atom1] = st.cci]
                       IN  BlockScanEager(rows, i + 1, cart,
                               [next_z |-> st.next_z,
                                next_cart |-> st.next_cart \cup {atom1},
                                block |-> Append(st.block,
                                    <<atom1, inv[rows[i][2]], inv[rows[i][3]], inv[rows[i][4]]>>),
                                perm |-> [st.perm EXCEPT ![st.cci] = atom1],
                                inv |-> inv,
                                cci |-> st.cci + 1,
                                err |-> FALSE])
             ELSE BlockScanEager(rows, i + 1, cart,
                      [st EXCEPT !.next_z = Append(st.next_z, rows[i])])

\* Mutant of BlockScan: a block takes the first atom it can build and no
\* other.
RECURSIVE BlockScanOneAtom(_, _, _, _)
BlockScanOneAtom(rows, i, cart, st) ==
    IF i > Len(rows) \/ st.err THEN st
    ELSE LET atom1 == rows[i][1]
         IN  IF /\ st.block = <<>>
                /\ rows[i][2] \in cart /\ rows[i][3] \in cart /\ rows[i][4] \in cart
             THEN IF st.cci \notin DOMAIN st.perm
                  THEN [st EXCEPT !.err = TRUE]
                  ELSE LET inv == [st.inv EXCEPT ![atom1] = st.cci]
                       IN  BlockScanOneAtom(rows, i + 1, cart,
                               [next_z |-> st.next_z,
                                next_cart |-> st.next_cart \cup {atom1},
                                block |-> Append(st.block,
                                    <<atom1, inv[rows[i][2]], inv[rows[i][3]], inv[rows[i][4]]>>),
                                perm |-> [st.perm EXCEPT ![st.cci] = atom1],
                                inv |-> inv,
                                cci |-> st.cci + 1,
                                err |-> FALSE])
             ELSE BlockScanOneAtom(rows, i + 1, cart,
                      [st EXCEPT !.next_z = Append(st.next_z, rows[i])])

\* The for loop of one pass over sorted_z_indices (lines 393-416):
\* st = [next_z, next_cart, block, perm, inv, cci, err] after the rows from
\* position i on.  A store past the end of rev_perm raises IndexError.
RECURSIVE BlockScan(_, _, _, _)
BlockScan(rows, i, cart, st) ==
    IF i > Len(rows) \/ st.err THEN st
    ELSE LET atom1 == rows[i][1]
             atom2 == rows[i][2]
             atom3 == rows[i][3]
             atom4 == rows[i][4]
         IN  IF atom2 \in cart /\ atom3 \in cart /\ atom4 \in cart
             THEN IF st.cci \notin DOMAIN st.perm
                  THEN [st EXCEPT !.err = TRUE]
                  ELSE LET perm == [st.perm EXCEPT ![st.cci] = atom1]
                           inv == [st.inv EXCEPT ![atom1] = st.cci]
                       IN  BlockScan(rows, i + 1, cart,
                               [next_z |-> st.next_z,
                                next_cart |-> st.next_cart \cup {atom1},
                                block |-> Append(st.block,
                                    <<atom1, inv[atom2], inv[atom3], inv[atom4]>>),
                                perm |-> perm,
                                inv |-> inv,
                                cci |-> st.cci + 1,
                                err |-> FALSE])
             ELSE BlockScan(rows, i + 1, cart,
                      [st EXCEPT !.next_z = Append(st.next_z, rows[i])])

\* One iteration of `while sorted_z_indices:` (lines 389-420).  The loop has
\* no bound of its own: the model stops following it once it has appended
\* more blocks than the z-matrix has rows.
BlockPass ==
    /\ pc = "blocks"
    /\ sorted_z_indices # <<>>
    /\ Len(blocks) <= Len(idx.rev_z_indices)
    /\ LET st == BlockScan(sorted_z_indices, 1, all_cart,
                     [next_z |-> <<>>, next_cart |-> {}, block |-> <<>>,
                      perm |-> rev_perm, inv |-> rev_perm_inv,
                      cci |-> current_cart_ind, err |-> FALSE])
       IN  IF st.err
           THEN /\ pc' = "IndexError"
                /\ UNCHANGED <<sorted_z_indices, all_cart, current_cart_ind,
                               blocks, rev_perm, rev_perm_inv>>
           ELSE /\ sorted_z_indices' = st.next_z
                /\ all_cart' = all_cart \cup st.next_cart
                /\ blocks' = Append(blocks, st.block)
                /\ rev_perm' = st.perm
                /\ rev_perm_inv' = st.inv
                /\ current_cart_ind' = st.cci
                /\ pc' = pc
    /\ UNCHANGED <<dims, z_indices, cart_indices, graph_unsorted, graph_sorted, idx>>
    /\ UNCHANGED objVars

\* The block loop has ended: self.rev_blocks = blocks (line 421), and
\* __init__ goes on to _validate_data.
BlocksDone ==
    /\ pc = "blocks"
    /\ sorted_z_indices = <<>>
    /\ pc' = "validate"
    /\ UNCHANGED <<setupVars, objVars>>

(***************************************************************************)
(* Numbers.  A tensor element is a rational <<n, d>> in lowest terms with  *)
(* d > 0.  NaR = <<0, 0>> stands for every value that is no such rational: *)
(* nan and +-inf, and the irrational results of sqrt, acos, atan2, sin and *)
(* cos; it propagates through every operation and every comparison with   *)
(* it is false, as for nan.  math.pi is the rational pi; sin, cos, acos    *)
(* and atan2 are exact at the multiples of pi / 4 they can reach with      *)
(* rational values.                                                        *)
(***************************************************************************)
NaR == <<0, 0>>

IsNum(a) == a[2] # 0

Abs(n) == IF n < 0 THEN -n ELSE n

RECURSIVE GCD(_, _)
GCD(a, b) == IF b = 0 THEN a ELSE GCD(b, a % b)

\* n / d for d > 0 with the common divisor g taken out
Lowest(n, d, g) == <<n \div g, d \div g>>

\* The rational n / d in lowest terms.
Rat(n, d) ==
    IF d = 0 THEN NaR
    ELSE IF d < 0 THEN Lowest(-n, -d, GCD(Abs(n), -d))
    ELSE Lowest(n, d, GCD(Abs(n), d))

Num(n) == <<n, 1>>

RAdd(a, b) == IF IsNum(a) /\ IsNum(b) THEN Rat(a[1] * b[2] + b[1] * a[2], a[2] * b[2]) ELSE NaR

RNeg(a) == <<-a[1], a[2]>>

RSub(a, b) == RAdd(a, RNeg(b))

RMul(a, b) == IF IsNum(a) /\ IsNum(b) THEN Rat(a[1] * b[1], a[2] * b[2]) ELSE NaR

\* a / b; a division by zero gives nan or +-inf.
RDiv(a, b) == IF IsNum(a) /\ IsNum(b) THEN Rat(a[1] * b[2], a[2] * b[1]) ELSE NaR

RLt(a, b) == IsNum(a) /\ IsNum(b) /\ a[1] * b[2] < b[1] * a[2]

RGt(a, b) == RLt(b, a)

RAbs(a) == <<Abs(a[1]), a[2]>>

\* The integer square root of a perfect square, -1 for any other integer.
ISqrt(n) ==
    IF n >= 0 /\ \E k \in 0 .. n : k * k = n
    THEN CHOOSE k \in 0 .. n : k * k = n
    ELSE -1

\* torch.sqrt
RSqrt(a) ==
    IF IsNum(a) /\ ISqrt(a[1]) >= 0 /\ ISqrt(a[2]) >= 0
    THEN Rat(ISqrt(a[1]), ISqrt(a[2]))
    ELSE NaR

\* Python's a % m for m > 0: the result lies in [0, m).
RMod(a, m) ==
    IF IsNum(a) /\ IsNum(m)
    THEN RSub(a, RMul(m, Num((a[1] * m[2]) \div (a[2] * m[1]))))
    ELSE NaR

RECURSIVE RSum(_)
RSum(s) == IF s = <<>> THEN Num(0) ELSE RAdd(Head(s), RSum(Tail(s)))

\* math.pi
pi == Num(PiUnits)

\* The value a function of period 2 pi takes at q quarter turns, given its
\* values at 0, pi / 2, pi and 3 pi / 2
AtQuarter(q, values) ==
    IF IsNum(q) /\ q[2] = 1 THEN Num(values[(q[1] % 4) + 1]) ELSE NaR

\* torch.sin, torch.cos
sin(a) == AtQuarter(RDiv(RMul(a, Num(2)), pi), <<0, 1, 0, -1>>)

cos(a) == AtQuarter(RDiv(RMul(a, Num(2)), pi), <<1, 0, -1, 0>>)

\* torch.acos
acos(c) ==
    IF c = Num(1) THEN Num(0)
    ELSE IF c = Num(0) THEN RDiv(pi, Num(2))
    ELSE IF c = Num(-1) THEN pi
    ELSE NaR

Sign(n) == IF n > 0 THEN 1 ELSE IF n < 0 THEN -1 ELSE 0

\* atan2(y, x) for y of sign sy and x of sign sx
Atan2Signs(sy, sx, y, x) ==
    IF sy = 0 THEN (IF sx < 0 THEN pi ELSE Num(0))
    ELSE IF sx = 0 THEN RMul(Num(sy), RDiv(pi, Num(2)))
    ELSE IF RAbs(y) = RAbs(x)
         THEN RMul(Num(sy), IF sx > 0 THEN RDiv(pi, Num(4))
                            ELSE RDiv(RMul(Num(3), pi), Num(4)))
         ELSE NaR

\* torch.atan2(y, x), with result in (-pi, pi]
atan2(y, x) ==
    IF ~(IsNum(y) /\ IsNum(x)) THEN NaR
    ELSE Atan2Signs(Sign(y[1]), Sign(x[1]), y, x)

(***************************************************************************)
(* Logarithms.  torch.log(r) of a positive rational r is held as r itself, *)
(* so that a sum of logarithms is the product of their arguments and a     *)
(* log-determinant is compared exactly; log(0) = -inf is NaR.              *)
(***************************************************************************)
log(r) == IF IsNum(r) /\ r[1] > 0 THEN r ELSE NaR

LogZero == Num(1)

LogAdd(a, b) == RMul(a, b)

LogNeg(a) == RDiv(Num(1), a)

LogSub(a, b) == LogAdd(a, LogNeg(b))

RECURSIVE LogSum(_)
LogSum(s) == IF s = <<>> THEN LogZero ELSE LogAdd(Head(s), LogSum(Tail(s)))

(***************************************************************************)
(* Vectors: the last dimension (x, y, z) of a tensor of positions.         *)
(***************************************************************************)
VSub(u, v) == <<RSub(u[1], v[1]), RSub(u[2], v[2]), RSub(u[3], v[3])>>

VAdd(u, v) == <<RAdd(u[1], v[1]), RAdd(u[2], v[2]), RAdd(u[3], v[3])>>

VScale(u, c) == <<RMul(u[1], c), RMul(u[2], c), RMul(u[3], c)>>

VDivS(u, c) == <<RDiv(u[1], c), RDiv(u[2], c), RDiv(u[3], c)>>

\* torch.sum(u * v, dim=2)
Dot(u, v) == RAdd(RAdd(RMul(u[1], v[1]), RMul(u[2], v[2])), RMul(u[3], v[3]))

\* torch.norm(u, dim=2)
norm(u) == RSqrt(Dot(u, u))

\* torch.cross(u, v, dim=2)
cross(u, v) ==
    <<RSub(RMul(u[2], v[3]), RMul(u[3], v[2])),
      RSub(RMul(u[3], v[1]), RMul(u[1], v[3])),
      RSub(RMul(u[1], v[2]), RMul(u[2], v[1]))>>

\* coords[:, ind] for the three columns ind of one atom (a column c of the
\* source is element c + 1 of the row)
Cols(row, ind) == <<row[ind[1] + 1], row[ind[2] + 1], row[ind[3] + 1]>>

(***************************************************************************)
(* calc_bonds, calc_angles, calc_dihedrals, reconstruct_cart               *)
(* (internal.py 15-104), for one atom of one sample.                       *)
(***************************************************************************)
\* u / torch.norm(u, dim=2, keepdim=True)
Unit(u) == VDivS(u, norm(u))

calc_bonds(ind1, ind2, coords) == norm(VSub(Cols(coords, ind2), Cols(coords, ind1)))

\* Lines 33-42: bc = b - c, cd = d - c, both normalised.
calc_angles(ind1, ind2, ind3, coords) ==
    acos(Dot(Unit(VSub(Cols(coords, ind1), Cols(coords, ind2))),
             Unit(VSub(Cols(coords, ind3), Cols(coords, ind2)))))

\* Lines 56-57: u minus its component along b1.
Rejection(u, b1) == VSub(u, VScale(b1, Dot(u, b1)))

\* Lines 58-62: x = v . w, y = (b1 x v) . w, -atan2(y, x).
DihedralOf(b1, v, w) == RNeg(atan2(Dot(cross(b1, v), w), Dot(v, w)))

\* Lines 56-62 from b0, the normalised b1 and b2.
DihedralFrom(b0, b1, b2) == DihedralOf(b1, Rejection(b0, b1), Rejection(b2, b1))

\* Lines 46-55: b0 = a - b, b1 = c - b normalised, b2 = d - c.
calc_dihedrals(ind1, ind2, ind3, ind4, coords) ==
    DihedralFrom(VSub(Cols(coords, ind1), Cols(coords, ind2)),
                 Unit(VSub(Cols(coords, ind3), Cols(coords, ind2))),
                 VSub(Cols(coords, ind4), Cols(coords, ind3)))

\* Lines 88-102: nn = v1 x n normalised, v3 = n sin(dih) + nn cos(dih)
\* normalised and scaled by bond sin(angle), v1 normalised and scaled by
\* bond cos(angle), new = p1 + v3 - v1.
NewCart(p1, v1, n, bond, angle, dih) ==
    VSub(VAdd(p1, VScale(VScale(Unit(VAdd(VScale(n, sin(dih)),
                                           VScale(Unit(cross(v1, n)), cos(dih)))),
                                bond), sin(angle))),
         VScale(VScale(Unit(v1), bond), cos(angle)))

\* Lines 83-87: v1 = p1 - p2, v2 = p1 - p3, n = v1 x v2 normalised.
NewCartFrom(p1, v1, v2, bond, angle, dih) ==
    NewCart(p1, v1, Unit(cross(v1, v2)), bond, angle, dih)

\* The position of one new atom from the positions p1, p2, p3 of its
\* reference atoms: new_cart of reconstruct_cart (lines 67-102).
ReconstructAtom(p1, p2, p3, bond, angle, dih) ==
    NewCartFrom(p1, VSub(p1, p2), VSub(p1, p3), bond, angle, dih)

\* Mutant of ReconstructJacTerm: the logarithm of the bond is counted once.
ReconstructJacTermSingleBond(bond, angle) ==
    LogAdd(log(RAbs(bond)), log(RAbs(sin(angle))))

\* The term of one atom in jac of reconstruct_cart (lines 76-80).
ReconstructJacTerm(bond, angle) ==
    LogAdd(LogAdd(log(RAbs(bond)), log(RAbs(bond))), log(RAbs(sin(angle))))

\* reconstruct_cart (lines 65-104) for the atoms of one block of one
\* sample: cart is the list of positions built so far, ref_atoms the rows
\* of three indices into it.
reconstruct_cart(cart, ref_atoms, bonds, angles, dihs) ==
    [new_cart |->
        List([k \in 1 .. Len(ref_atoms) |->
            ReconstructAtom(cart[ref_atoms[k][1] + 1], cart[ref_atoms[k][2] + 1],
                            cart[ref_atoms[k][3] + 1], bonds[k], angles[k], dihs[k])]),
     jac |-> LogSum([k \in 1 .. Len(ref_atoms) |-> ReconstructJacTerm(bonds[k], angles[k])])]

(***************************************************************************)
(* InternalCoordinateTransform: forward, _fwd, inverse, the statistics     *)
(* (internal.py 156-309, 423-438).  The operators work on one sample (one  *)
(* row of the batch); the actions apply them to every row.  shift_dih is   *)
(* left at its default (False).                                            *)
(***************************************************************************)
\* x[:, cols] = vals, one column after the other
RECURSIVE Scatter(_, _, _)
Scatter(x, cols, vals) ==
    IF cols = <<>> THEN x
    ELSE Scatter([x EXCEPT ![Head(cols) + 1] = Head(vals)], Tail(cols), Tail(vals))

\* x[:, cols]
Gather(x, cols) == List([i \in 1 .. Len(cols) |-> x[cols[i] + 1]])

\* Lines 176-187 of _fwd: the log-determinant from the bonds and angles,
\* and the bonds, angles and dihedrals stored in the columns of their atoms
\* (self.inds4[:, 0], [:, 1], [:, 2]).
FwdStore(rz, x, bonds, angles, dihedrals) ==
    [x |-> Scatter(Scatter(Scatter(x,
                [k \in 1 .. Len(rz) |-> inds_for_atom(rz[k][1])[1]], bonds),
                [k \in 1 .. Len(rz) |-> inds_for_atom(rz[k][1])[2]], angles),
                [k \in 1 .. Len(rz) |-> inds_for_atom(rz[k][1])[3]], dihedrals),
     jac |-> LogNeg(LogSum([k \in 1 .. Len(rz) |->
                 LogAdd(LogAdd(log(bonds[k]), log(bonds[k])), log(RAbs(sin(angles[k]))))]))]

\* Lines 169-174 of _fwd for the rows rz of rev_z_indices: inds1, inds2,
\* inds3 are the columns of the atoms rz[k][2], rz[k][3], rz[k][4] and inds4
\* those of the atom rz[k][1].
FwdRows(rz, x) ==
    FwdStore(rz, x,
        List([k \in 1 .. Len(rz) |->
            calc_bonds(inds_for_atom(rz[k][2]), inds_for_atom(rz[k][1]), x)]),
        List([k \in 1 .. Len(rz) |->
            calc_angles(inds_for_atom(rz[k][3]), inds_for_atom(rz[k][2]),
                        inds_for_atom(rz[k][1]), x)]),
        List([k \in 1 .. Len(rz) |->
            calc_dihedrals(inds_for_atom(rz[k][4]), inds_for_atom(rz[k][3]),
                           inds_for_atom(rz[k][2]), inds_for_atom(rz[k][1]), x)]))

\* _fwd (lines 167-188) on the row x: [x, jac]
Fwd(ix, x) == FwdRows(ix.rev_z_indices, x)

\* x[:, cols] -= m
SubCols(x, cols, m) ==
    Scatter(x, cols, List([i \in 1 .. Len(cols) |-> RSub(x[cols[i] + 1], m[i])]))

\* x[:, cols] /= sd
DivCols(x, cols, sd) ==
    Scatter(x, cols, List([i \in 1 .. Len(cols) |-> RDiv(x[cols[i] + 1], sd[i])]))

\* Mutant of WrapDih: the dihedral is left as it is.
WrapDihSkipped(d) == d

\* (dih + math.pi) % (2 * math.pi) - math.pi
WrapDih(d) == RSub(RMod(RAdd(d, pi), RMul(Num(2), pi)), pi)

\* _fix_dih (lines 297-300)
FixDih(ix, x) ==
    Scatter(x, ix.dih_indices,
        List([i \in 1 .. Len(ix.dih_indices) |-> WrapDih(x[ix.dih_indices[i] + 1])]))

\* Lines 158-162 of forward on the result f of _fwd: trans after the mean
\* of the dihedrals is subtracted.
Shifted(ix, st, f) ==
    SubCols(
        DivCols(
            SubCols(
                DivCols(
                    SubCols(f.x, ix.bond_indices, st.mean_bonds),
                    ix.bond_indices, st.std_bonds),
                ix.angle_indices, st.mean_angles),
            ix.angle_indices, st.std_angles),
        ix.dih_indices, st.mean_dih)

\* Lines 164-165 of forward: shifted is trans before _fix_dih and fixed is
\* trans after it.
NormalizeDih(ix, st, f, shifted, fixed) ==
    [x |-> DivCols(fixed, ix.dih_indices, st.std_dih),
     jac |-> LogAdd(f.jac, st.scale_jac),
     shifted |-> shifted, fixed |-> fixed]

\* Line 163 of forward
NormalizeFix(ix, st, f, shifted) == NormalizeDih(ix, st, f, shifted, FixDih(ix, shifted))

\* Lines 158-165 of forward on the result f of _fwd
Normalize(ix, st, f) == NormalizeFix(ix, st, f, Shifted(ix, st, f))

\* forward (lines 156-165) on the row x: [x, jac]
IctForward(ix, st, x) == Normalize(ix, st, Fwd(ix, x))

\* a ** 2
Square(a) == RMul(a, a)

\* Mutant of PositivePart: the excess is taken over 0 instead of over pi.
PositivePartFromZero(a) == IF RGt(a, pi) THEN a ELSE Num(0)

\* torch.where(angles > math.pi, angles - math.pi, zero) and its mirror
PositivePart(a) == IF RGt(a, pi) THEN RSub(a, pi) ELSE Num(0)

NegativePart(a) == IF RLt(a, RNeg(pi)) THEN RAdd(a, pi) ELSE Num(0)

\* _periodic_angle_loss (lines 423-438) for the angles of one row
periodic_angle_loss(angles) ==
    RAdd(RSum([i \in 1 .. Len(angles) |-> Square(PositivePart(angles[i]))]),
         RSum([i \in 1 .. Len(angles) |-> Square(NegativePart(angles[i]))]))

\* Line 249: dihs = torch.where(dihs > math.pi, dihs - 2 * math.pi, dihs)
WrapAbove(d) == IF RGt(d, pi) THEN RSub(d, RMul(Num(2), pi)) ELSE d

\* Lines 247-249: "Fix the dihedrals to lie in [-pi, pi]"; line 248 is
\* dihs = torch.where(dihs < math.pi, dihs + 2 * math.pi, dihs).
FixInverseDih(d) == WrapAbove(IF RLt(d, pi) THEN RAdd(d, RMul(Num(2), pi)) ELSE d)

\* Mutant of Unnormalize: the mean is not added back.
UnnormalizeNoMean(ix, x, atoms, off, sd, mean) ==
    List([k \in 1 .. Len(atoms) |->
        RMul(x[3 * atoms[k] + off + 1], sd[ix.atom_to_stats[atoms[k]] + 1])])

\* x[:, 3 * atoms_to_build + off] * std[atom_to_stats[atoms_to_build]]
\*     + mean[atom_to_stats[atoms_to_build]]
Unnormalize(ix, x, atoms, off, sd, mean) ==
    List([k \in 1 .. Len(atoms) |->
        RAdd(RMul(x[3 * atoms[k] + off + 1], sd[ix.atom_to_stats[atoms[k]] + 1]),
             mean[ix.atom_to_stats[atoms[k]] + 1])])

\* Mutant of AngleLossStart: the attribute keeps what it held.
AngleLossKept(previous) == previous

\* The value self.angle_loss is given before the blocks are processed
\* (line 197) for one row.
AngleLossStart(previous) == Num(0)

\* The body of `for block in self.rev_blocks` (lines 216-257) for the blocks
\* from b on: s = [cart, jac, angle_loss, steps], steps recording for each
\* block the values the body computed.
\* Lines 252-257: the new positions are appended to cart and the
\* log-determinant is accumulated; step is the record of the block.
BlockAppend(s, step, rc) ==
    [cart |-> s.cart \o rc.new_cart,
     jac |-> LogAdd(s.jac, rc.jac),
     angle_loss |-> RAdd(RAdd(s.angle_loss, step.loss_angles), step.loss_dihs),
     steps |-> Append(s.steps, step)]

\* Lines 238-252: the angle losses, the dihedrals fixed, reconstruct_cart.
BlockBuild(s, atoms_to_build, ref_atoms, bonds, angles, dihs, fixed) ==
    BlockAppend(s,
        [atoms |-> atoms_to_build, buffer_rows |-> Len(s.cart),
         ref_atoms |-> ref_atoms, bonds |-> bonds, angles |-> angles,
         dihs |-> dihs, fixed |-> fixed,
         loss_angles |-> periodic_angle_loss(angles),
         loss_dihs |-> periodic_angle_loss(dihs)],
        reconstruct_cart(s.cart, ref_atoms, bonds, angles, fixed))

\* Lines 247-249 for the dihedrals of a block.
BlockFix(s, atoms_to_build, ref_atoms, bonds, angles, dihs) ==
    BlockBuild(s, atoms_to_build, ref_atoms, bonds, angles, dihs,
               List([k \in 1 .. Len(dihs) |-> FixInverseDih(dihs[k])]))

\* Lines 222-236: the bonds, angles and dihedrals of the atoms to build.
BlockValues(ix, st, x, s, atoms_to_build, ref_atoms) ==
    BlockFix(s, atoms_to_build, ref_atoms,
        Unnormalize(ix, x, atoms_to_build, 0, st.std_bonds, st.mean_bonds),
        Unnormalize(ix, x, atoms_to_build, 1, st.std_angles, st.mean_angles),
        Unnormalize(ix, x, atoms_to_build, 2, st.std_dih, st.mean_dih))

\* Lines 217-218 for one block: atoms_to_build = block[:, 0],
\* ref_atoms = block[:, 1:].
BlockStep(ix, st, x, s, block) ==
    BlockValues(ix, st, x, s,
        List([k \in 1 .. Len(block) |-> block[k][1]]),
        List([k \in 1 .. Len(block) |-> <<block[k][2], block[k][3], block[k][4]>>]))

RECURSIVE InverseBlocks(_, _, _, _, _, _)
InverseBlocks(ix, st, rb, x, b, s) ==
    IF b > Len(rb) THEN s
    ELSE InverseBlocks(ix, st, rb, x, b + 1, BlockStep(ix, st, x, s, rb[b]))

\* The rows of three columns of x: x.view(-1, 3)
View3(x) == List([i \in 1 .. Len(x) \div 3 |-> <<x[3 * i - 2], x[3 * i - 1], x[3 * i]>>])

\* cart.view(n_batch, -1): the coordinates of the positions ps in one row
Flatten(ps) ==
    List([k \in 1 .. 3 * Len(ps) |-> ps[((k - 1) \div 3) + 1][((k - 1) % 3) + 1]])

\* Mutant of InverseResult: cart is flattened in the order it was built in.
InverseResultUnpermuted(st, inv, s) ==
    [x |-> Flatten(s.cart), jac |-> LogSub(s.jac, st.scale_jac),
     angle_loss |-> s.angle_loss, steps |-> s.steps]

\* Lines 259-261 on the state s the blocks left: cart[:, self.rev_perm_inv]
\* flattened, and the log-determinant less scale_jac.
InverseResult(st, inv, s) ==
    [x |-> Flatten(List([a \in 1 .. Cardinality(DOMAIN inv) |-> s.cart[inv[a - 1] + 1]])),
     jac |-> LogSub(s.jac, st.scale_jac),
     angle_loss |-> s.angle_loss, steps |-> s.steps]

\* inverse (lines 190-261) on the row x, the attribute angle_loss holding
\* `previous` for this row: [x, jac, angle_loss, steps]
IctInverse(ix, st, rb, inv, x, previous) ==
    InverseResult(st, inv,
        InverseBlocks(ix, st, rb, x, 1,
            [cart |-> View3(Gather(x, ix.init_cart_indices)), jac |-> LogZero,
             angle_loss |-> AngleLossStart(previous), steps |-> <<>>]))

(***************************************************************************)
(* InternalCoordinateTransform.__init__ after _setup_indices: the          *)
(* validation of the data and the statistics (internal.py 117-154,         *)
(* 263-325).                                                               *)
(***************************************************************************)
\* Python's None, and an attribute or buffer that has not been set.
None == <<>>

Unset == <<>>

\* Mutant of ValidateData: the number of columns is not compared with dims.
ValidateDataNoColumnCheck ==
    /\ pc = "validate"
    /\ pc' = IF data = None THEN "ValueError"
             ELSE IF Len(data.shape) # 2 THEN "ValueError"
             ELSE "statistics"
    /\ UNCHANGED <<setupVars, objVars>>

\* _validate_data (lines 311-325)
ValidateData ==
    /\ pc = "validate"
    /\ pc' = IF data = None THEN "ValueError"
             ELSE IF Len(data.shape) # 2 THEN "ValueError"
             ELSE IF data.shape[2] # dims THEN "ValueError"
             ELSE "statistics"
    /\ UNCHANGED <<setupVars, objVars>>

\* x[:, c] of the batch x (a list of rows)
Column(x, c) == List([r \in 1 .. Len(x) |-> x[r][c + 1]])

\* torch.mean(col)
Mean(col) == RDiv(RSum(col), Num(Len(col)))

\* The sum of the squared deviations of col from m
SquaredDeviations(col, m) == RSum([r \in 1 .. Len(col) |-> Square(RSub(col[r], m))])

\* torch.std(col): the square root of the unbiased variance
Std(col) == RSqrt(RDiv(SquaredDeviations(col, Mean(col)), Num(Len(col) - 1)))

\* torch.mean(x[:, cols], dim=0)
ColMeans(x, cols) == List([i \in 1 .. Len(cols) |-> Mean(Column(x, cols[i]))])

\* Mutant of ColStds: the standard deviation is computed for a single sample
\* as well.
ColStdsAlways(x, cols, default) ==
    List([i \in 1 .. Len(cols) |-> Std(Column(x, cols[i]))])

\* _setup_std_bonds, _setup_std_angles, _setup_std_dih: torch.std(x[:, cols],
\* dim=0) for more than one sample, the default for a single one
ColStds(x, cols, default) ==
    IF Len(x) > 1
    THEN List([i \in 1 .. Len(cols) |-> Std(Column(x, cols[i]))])
    ELSE List([i \in 1 .. Len(cols) |-> RMul(Num(1), default)])

\* atan2 of the means of the sines and of the cosines of col
CircularMean(col) ==
    atan2(Mean(List([r \in 1 .. Len(col) |-> sin(col[r])])),
          Mean(List([r \in 1 .. Len(col) |-> cos(col[r])])))

\* _setup_mean_dih (lines 291-295)
CircularMeans(x, cols) ==
    List([i \in 1 .. Len(cols) |-> CircularMean(Column(x, cols[i]))])

\* torch.sum(torch.log(v))
SumLog(v) == LogSum(List([i \in 1 .. Len(v) |-> log(v[i])]))

\* transformed[:, cols] -= m and transformed[:, cols] /= sd on every row
SubRows(t, cols, m) == List([r \in 1 .. Len(t) |-> SubCols(t[r], cols, m)])

DivRows(t, cols, sd) == List([r \in 1 .. Len(t) |-> DivCols(t[r], cols, sd)])

\* Lines 123-135 of __init__, one operator for each buffer: s holds the
\* tensor `transformed` (field x) and the buffers registered so far, v is
\* the buffer the setter registers, and the line after the setter is
\* applied to `transformed`.
with_mean_bonds(ix, s, v) ==
    [x |-> SubRows(s.x, ix.bond_indices, v), mean_bonds |-> v]

setup_mean_bonds(ix, s) == with_mean_bonds(ix, s, ColMeans(s.x, ix.bond_indices))

with_std_bonds(ix, s, v) ==
    [x |-> DivRows(s.x, ix.bond_indices, v), mean_bonds |-> s.mean_bonds, std_bonds |-> v]

setup_std_bonds(ix, default, s) ==
    with_std_bonds(ix, s, ColStds(s.x, ix.bond_indices, default.bond))

with_mean_angles(ix, s, v) ==
    [x |-> SubRows(s.x, ix.angle_indices, v), mean_bonds |-> s.mean_bonds,
     std_bonds |-> s.std_bonds, mean_angles |-> v]

setup_mean_angles(ix, s) == with_mean_angles(ix, s, ColMeans(s.x, ix.angle_indices))

with_std_angles(ix, s, v) ==
    [x |-> DivRows(s.x, ix.angle_indices, v), mean_bonds |-> s.mean_bonds,
     std_bonds |-> s.std_bonds, mean_angles |-> s.mean_angles, std_angles |-> v]

setup_std_angles(ix, default, s) ==
    with_std_angles(ix, s, ColStds(s.x, ix.angle_indices, default.angle))

\* Lines 132-133: the mean is subtracted and _fix_dih wraps the result.
with_mean_dih(ix, s, v) ==
    [x |-> List([r \in 1 .. Len(s.x) |-> FixDih(ix, SubCols(s.x[r], ix.dih_indices, v))]),
     mean_bonds |-> s.mean_bonds, std_bonds |-> s.std_bonds,
     mean_angles |-> s.mean_angles, std_angles |-> s.std_angles, mean_dih |-> v]

setup_mean_dih(ix, s) == with_mean_dih(ix, s, CircularMeans(s.x, ix.dih_indices))

\* Lines 134 and 149-154: std_dih and, from the three standard deviations,
\* scale_jac.
with_std_dih(s, v) ==
    [mean_bonds |-> s.mean_bonds, std_bonds |-> s.std_bonds,
     mean_angles |-> s.mean_angles, std_angles |-> s.std_angles,
     mean_dih |-> s.mean_dih, std_dih |-> v,
     scale_jac |-> LogNeg(LogAdd(LogAdd(SumLog(s.std_bonds), SumLog(s.std_angles)),
                                 SumLog(v)))]

\* Mutant of StdDih: the dihedrals of ind_circ_dih get the default as well.
StdDihAllDefault(x, cols, default, circ) == ColStds(x, cols, default)

\* _setup_std_dih (lines 302-309): as ColStds, and for a single sample
\* std_dih[self.ind_circ_dih] = 1.
StdDih(x, cols, default, circ) ==
    IF Len(x) > 1
    THEN ColStds(x, cols, default)
    ELSE List([i \in 1 .. Len(cols) |->
             IF i - 1 \in Range(circ) THEN Num(1) ELSE default])

setup_std_dih(ix, default, circ, s) ==
    with_std_dih(s, StdDih(s.x, ix.dih_indices, default.dih, circ))

\* Lines 119-154 for the data rows x: the buffers mean_bonds, ..., scale_jac.
Statistics(ix, x, default, circ) ==
    setup_std_dih(ix, default, circ,
        setup_mean_dih(ix,
            setup_std_angles(ix, default,
                setup_mean_angles(ix,
                    setup_std_bonds(ix, default,
                        setup_mean_bonds(ix,
                            [x |-> List([r \in 1 .. Len(x) |-> Fwd(ix, x[r]).x])]))))))

\* Lines 119-154: the statistics are registered and __init__ returns (to
\* the constructor of CompleteInternalCoordinateTransform when that one
\* called it).
FitStatistics ==
    /\ pc = "statistics"
    /\ stats' = Statistics(idx, data.rows, default_std, ind_circ_dih)
    /\ pc' = IF mode = "complete" THEN "permute" ELSE "ready"
    /\ UNCHANGED <<setupVars, mode, data, default_std, ind_circ_dih, cstats, angle_loss, ret>>

(***************************************************************************)
(* CompleteInternalCoordinateTransform (internal.py 462-593).              *)
(***************************************************************************)
\* The number of cartesian indices line 480 asserts.
AnchorCount == 3

\* Mutant of AssertAnchors: the number of cartesian indices is not asserted.
AssertAnchorsSkipped ==
    /\ pc = "assert"
    /\ pc' = "topological_sort"
    /\ graph_unsorted' = dict(z_indices)
    /\ UNCHANGED <<dims, z_indices, cart_indices, graph_sorted, sorted_z_indices, all_cart,
                   current_cart_ind, blocks, rev_perm, rev_perm_inv, idx>>
    /\ UNCHANGED objVars

\* Lines 479-480: the assertion on the number of cartesian indices, before
\* the InternalCoordinateTransform is created.
AssertAnchors ==
    /\ pc = "assert"
    /\ IF Len(cart_indices) = AnchorCount
       THEN pc' = "topological_sort" /\ graph_unsorted' = dict(z_indices)
       ELSE pc' = "AssertionError" /\ graph_unsorted' = graph_unsorted
    /\ UNCHANGED <<dims, z_indices, cart_indices, graph_sorted, sorted_z_indices, all_cart,
                   current_cart_ind, blocks, rev_perm, rev_perm_inv, idx>>
    /\ UNCHANGED objVars

\* Lines 589-593 of _convert_last_internal from p21 = p2 - p1 and
\* p31 = p3 - p1.
LastInternal(p21, p31) ==
    [b1 |-> norm(p21), b2 |-> norm(p31),
     angle |-> acos(RDiv(RDiv(Dot(p21, p31), norm(p21)), norm(p31)))]

\* _convert_last_internal (lines 583-593) on the nine anchor columns x
convert_last_internal(x) ==
    LastInternal(VSub(<<x[4], x[5], x[6]>>, <<x[1], x[2], x[3]>>),
                 VSub(<<x[7], x[8], x[9]>>, <<x[1], x[2], x[3]>>))

\* Mutant of FirstOfRows: the rows are read from the last to the first.
FirstOfRowsReversed(z) == List([i \in 1 .. Len(z) |-> z[Len(z) + 1 - i][1]])

\* [row[0] for row in z_mat]
FirstOfRows(z) == List([i \in 1 .. Len(z) |-> z[i][1]])

\* The loop of lines 493-499 from position i of all_ind on:
\* p = [permute, permute_inv, err], err for a store outside the tensors.
RECURSIVE PermuteLoop(_, _, _)
PermuteLoop(all_ind, i, p) ==
    IF i > Len(all_ind) \/ p.err THEN p
    ELSE LET j == all_ind[i]
             n == Len(p.permute)
         IN  IF 3 * (i - 1) + 2 >= n \/ 3 * j + 2 >= n
             THEN [p EXCEPT !.err = TRUE]
             ELSE PermuteLoop(all_ind, i + 1,
                      [permute |-> [c \in 1 .. n |->
                           IF c - 1 \in {3 * (i - 1), 3 * (i - 1) + 1, 3 * (i - 1) + 2}
                           THEN 3 * j + ((c - 1) % 3) ELSE p.permute[c]],
                       permute_inv |-> [c \in 1 .. n |->
                           IF c - 1 \in {3 * j, 3 * j + 1, 3 * j + 2}
                           THEN 3 * (i - 1) + ((c - 1) % 3) ELSE p.permute_inv[c]],
                       err |-> FALSE])

\* Lines 505-517 from the columns b1, b2, angle of the data and the
\* standard deviations.
AnchorBuffers(p, b1, b2, angle, std_b1, std_b2, std_angle) ==
    [err |-> p.err,
     permute |-> p.permute, permute_inv |-> p.permute_inv,
     mean_b1 |-> Mean(b1), mean_b2 |-> Mean(b2), mean_angle |-> Mean(angle),
     std_b1 |-> std_b1, std_b2 |-> std_b2, std_angle |-> std_angle,
     scale_jac |-> LogNeg(LogAdd(LogAdd(log(std_b1), log(std_b2)), log(std_angle)))]

\* Lines 508-515: torch.std for more than one sample, the defaults for one.
AnchorStds(p, b1, b2, angle, default) ==
    IF Len(b1) > 1
    THEN AnchorBuffers(p, b1, b2, angle, Std(b1), Std(b2), Std(angle))
    ELSE AnchorBuffers(p, b1, b2, angle, RMul(Num(1), default.bond),
                       RMul(Num(1), default.bond), RMul(Num(1), default.angle))

\* Line 504 from the results `last` of _convert_last_internal on the rows.
AnchorColumns(p, last, default) ==
    AnchorStds(p, List([r \in 1 .. Len(last) |-> last[r].b1]),
               List([r \in 1 .. Len(last) |-> last[r].b2]),
               List([r \in 1 .. Len(last) |-> last[r].angle]), default)

\* Lines 503-504: data[:, self.permute] and _convert_last_internal on its
\* first 3 * len_cart_inds columns; nothing is computed after an IndexError.
AnchorStatistics(p, len_cart_inds, rows, default) ==
    IF p.err THEN [err |-> TRUE]
    ELSE AnchorColumns(p,
             List([r \in 1 .. Len(rows) |->
                 convert_last_internal(
                     SubSeq(Gather(rows[r], p.permute), 1, 3 * len_cart_inds))]),
             default)

\* Lines 488-517: the permutation vectors and the statistics of the anchor
\* frame.  permute and permute_inv are the lists of their (0-based) entries.
CompleteBuffers(n_dim, z_mat, cartesian_indices, rows, default) ==
    AnchorStatistics(
        PermuteLoop(cartesian_indices \o FirstOfRows(z_mat), 1,
            [permute |-> [c \in 1 .. n_dim |-> 0],
             permute_inv |-> [c \in 1 .. n_dim |-> 0], err |-> FALSE]),
        Len(cartesian_indices), rows, default)

\* Lines 488-517 as one step of the constructor.
BuildPermute ==
    /\ pc = "permute"
    /\ \E c \in {CompleteBuffers(dims, z_indices, cart_indices, data.rows, default_std)} :
           IF c.err
           THEN pc' = "IndexError" /\ cstats' = cstats
           ELSE pc' = "ready" /\ cstats' = c
    /\ UNCHANGED <<setupVars, mode, data, default_std, ind_circ_dih, stats, angle_loss, ret>>

\* Mutant of InternalPart: the anchor columns are kept.
InternalPartAll(x, len_cart_inds) == x

\* Line 533: int_coords = x[:, 3*self.len_cart_inds:]
InternalPart(x, len_cart_inds) == SubSeq(x, 3 * len_cart_inds + 1, Len(x))

\* Lines 537-548 from the log-determinant jac, the internal coordinates
\* and the b1, b2, angle of the anchors.
CompleteMerge(c, jac, int_coords, last) ==
    [x |-> <<RDiv(RSub(last.b1, c.mean_b1), c.std_b1),
             RDiv(RSub(last.b2, c.mean_b2), c.std_b2),
             RDiv(RSub(last.angle, c.mean_angle), c.std_angle)>> \o int_coords,
     jac |-> LogAdd(LogSub(jac, log(last.b2)), c.scale_jac)]

\* Lines 533-536 on the permuted row x.
CompleteSplit(c, len_cart_inds, jac, x) ==
    CompleteMerge(c, jac, InternalPart(x, len_cart_inds),
                  convert_last_internal(SubSeq(x, 1, 3 * len_cart_inds)))

\* Lines 527-530 on the result f of ic_transform.forward.
CompletePermute(c, len_cart_inds, f) ==
    CompleteSplit(c, len_cart_inds, LogAdd(LogZero, f.jac), Gather(f.x, c.permute))

\* forward (lines 520-550) on the row x: [x, jac]
CompleteForward(ix, st, c, len_cart_inds, x) ==
    CompletePermute(c, len_cart_inds, IctForward(ix, st, x))

\* Lines 578-581 on the result g of ic_transform.inverse on the row xp.
CompleteInverseResult(jac, xp, g) ==
    [x |-> g.x, jac |-> LogAdd(jac, g.jac), angle_loss |-> g.angle_loss,
     steps |-> g.steps, inner |-> xp]

\* Line 578 on the permuted row xp.
CompleteInverseInner(ix, st, rb, inv, jac, xp, previous) ==
    CompleteInverseResult(jac, xp, IctInverse(ix, st, rb, inv, xp, previous))

\* Lines 564-575 from the un-normalised b1, b2, angle.
CompleteAnchors(ix, st, rb, inv, c, len_cart_inds, int_coords, b1, b2, angle, previous) ==
    CompleteInverseInner(ix, st, rb, inv,
        LogAdd(LogSub(LogZero, c.scale_jac), log(b2)),
        Gather(List([k \in 1 .. 3 * len_cart_inds |->
                        IF k - 1 = 3 THEN b1
                        ELSE IF k - 1 = 6 THEN RMul(b2, cos(angle))
                        ELSE IF k - 1 = 7 THEN RMul(b2, sin(angle))
                        ELSE Num(0)]) \o int_coords,
               c.permute_inv),
        previous)

\* inverse (lines 552-581) on the row x, the attribute angle_loss of the
\* inner transform holding `previous` for this row:
\* [x, jac, angle_loss, steps, inner]
CompleteInverse(ix, st, rb, inv, c, len_cart_inds, x, previous) ==
    CompleteAnchors(ix, st, rb, inv, c, len_cart_inds,
        SubSeq(x, 3 * len_cart_inds - 6 + 1, Len(x)),
        RAdd(RMul(x[1], c.std_b1), c.mean_b1),
        RAdd(RMul(x[2], c.std_b2), c.mean_b2),
        RAdd(RMul(x[3], c.std_angle), c.mean_angle),
        previous)

(***************************************************************************)
(* The calls of forward and inverse on a constructed transform.  `ret`     *)
(* keeps the last call: its batch x, the batch and the log-determinants    *)
(* it returned, for an inverse the values each block computed, and, when   *)
(* the batch was the one the call before had returned (a round trip), the  *)
(* batch and the log-determinants of that call; loss_before is what the    *)
(* attribute angle_loss held when the call was made.                       *)
(***************************************************************************)
NoCall ==
    [op |-> "none", x |-> <<>>, out |-> <<>>, jac |-> <<>>, steps |-> <<>>,
     chained |-> FALSE, prev_x |-> <<>>, prev_jac |-> <<>>, loss_before |-> <<>>]

Opposite(op) == IF op = "forward" THEN "inverse" ELSE "forward"

\* The record of a call of op on the batch x with the per-row results res.
Called(op, x, res, steps) ==
    LET chained == ret.op = Opposite(op) /\ x = ret.out
    IN  [op |-> op, x |-> x,
         out |-> List([r \in 1 .. Len(x) |-> res[r].x]),
         jac |-> List([r \in 1 .. Len(x) |-> res[r].jac]),
         steps |-> steps,
         chained |-> chained,
         prev_x |-> IF chained THEN ret.x ELSE <<>>,
         prev_jac |-> IF chained THEN ret.jac ELSE <<>>,
         loss_before |-> angle_loss]

\* What self.angle_loss holds for row r when inverse is entered.
Previous(r) ==
    IF angle_loss # Unset /\ r <= Len(angle_loss) THEN angle_loss[r] ELSE Num(0)

\* The batches a call may be given: those of a family, and the batch the
\* last call returned when that was a call in the other direction.
Inputs(op, family) ==
    family \cup (IF ret.op = Opposite(op) THEN {ret.out} ELSE {})

\* Mutant of to_device: the move refits a buffer.
to_device_refit(st) == [st EXCEPT !.mean_bonds = [i \in DOMAIN st.mean_bonds |-> Num(0)]]

\* Lines 199-208 of inverse: std_bonds, mean_bonds, std_angles, mean_angles,
\* std_dih and mean_dih are assigned their own values moved to the device
\* of x.
to_device(st) ==
    [st EXCEPT !.std_bonds = st.std_bonds, !.mean_bonds = st.mean_bonds,
               !.std_angles = st.std_angles, !.mean_angles = st.mean_angles,
               !.std_dih = st.std_dih, !.mean_dih = st.mean_dih]

\* Mutant of clone: _fwd works on the tensor of the caller, which then
\* holds what the stores in place have made of it.
clone_aliased(x, trans) == trans

\* Line 168, x = x.clone(): what the tensor of the caller holds when forward
\* returns trans.  Every store of _fwd and forward goes to the copy.
clone(x, trans) == x

\* InternalCoordinateTransform.forward on the batch x
ForwardCall(x) ==
    \E res \in {List([r \in 1 .. Len(x) |-> IctForward(idx, stats, x[r])])} :
        /\ ret' = Called("forward", x, res,
                       List([r \in 1 .. Len(x) |->
                           [shifted |-> res[r].shifted, fixed |-> res[r].fixed,
                            caller |-> clone(x[r], res[r].x)]]))
        /\ UNCHANGED <<angle_loss, stats>>

\* InternalCoordinateTransform.inverse on the batch x; blocks is
\* self.rev_blocks (line 421)
InverseCall(x) ==
    \E res \in {List([r \in 1 .. Len(x) |->
                    IctInverse(idx, stats, blocks, rev_perm_inv, x[r], Previous(r))])} :
        /\ ret' = Called("inverse", x, res, List([r \in 1 .. Len(x) |-> res[r].steps]))
        /\ angle_loss' = List([r \in 1 .. Len(x) |-> res[r].angle_loss])
        /\ stats' = to_device(stats)

\* CompleteInternalCoordinateTransform.forward on the batch x
CompleteForwardCall(x) ==
    \E res \in {List([r \in 1 .. Len(x) |->
                    CompleteForward(idx, stats, cstats, Len(cart_indices), x[r])])} :
        /\ ret' = Called("forward", x, res, <<>>)
        /\ UNCHANGED <<angle_loss, stats>>

\* CompleteInternalCoordinateTransform.inverse on the batch x
CompleteInverseCall(x) ==
    \E res \in {List([r \in 1 .. Len(x) |->
                    CompleteInverse(idx, stats, blocks, rev_perm_inv, cstats,
                                    Len(cart_indices), x[r], Previous(r))])} :
        /\ ret' = Called("inverse", x, res, List([r \in 1 .. Len(x) |-> res[r].steps]))
        /\ angle_loss' = List([r \in 1 .. Len(x) |-> res[r].angle_loss])
        /\ stats' = to_device(stats)

(***************************************************************************)
(* The z-matrices and anchor lists the index setup is explored on.         *)
(***************************************************************************)
\* Reference triples are given by their offsets from the atom (modulo the
\* number of atoms): the three atoms before it (a chain), triples that skip
\* one of them or list them in another order, one that names the atom after
\* it, one that names the atom itself.
RefOffsets == {<<-1, -2, -3>>, <<-2, -3, -4>>, <<-1, -2, -4>>, <<-3, -1, -2>>,
               <<1, -1, -2>>, <<0, -1, -2>>}

Entries(n) ==
    {<<a, <<(a + n + o[1]) % n, (a + n + o[2]) % n, (a + n + o[3]) % n>>>> :
        a \in 0 .. n - 1, o \in RefOffsets}

SeqsUpTo(S, k) == UNION {[1 .. m -> S] : m \in 0 .. k}

ZMats == SeqsUpTo(Entries(NAtoms), MaxZ)

CartChoices == {<<0, 1, 2>>, <<2, 0, 1>>, <<0, 1, 2, 3>>}

\* The argument default_std of the constructions explored.
DefaultStd == [bond |-> Rat(1, 2), angle |-> Rat(1, 3), dih |-> Rat(1, 5)]

InitSetup ==
    /\ pc = "topological_sort"
    /\ dims = 3 * NAtoms
    /\ z_indices \in ZMats
    /\ cart_indices \in CartChoices
    /\ graph_unsorted = dict(z_indices)
    /\ graph_sorted = <<>>
    /\ sorted_z_indices = <<>>
    /\ all_cart = {}
    /\ current_cart_ind = 0
    /\ blocks = <<>>
    /\ rev_perm = <<>>
    /\ rev_perm_inv = <<>>
    /\ idx = <<>>
    /\ mode = "ict"
    /\ data = None
    /\ default_std = DefaultStd
    /\ ind_circ_dih = <<>>
    /\ stats = <<>>
    /\ cstats = <<>>
    /\ angle_loss = <<>>
    /\ ret = NoCall

NextSetup == TopoPass \/ SetupIndices \/ BlockPass \/ BlocksDone

SpecSetup == InitSetup /\ [][NextSetup]_vars

\* __init__ is sequential code: a step that can be taken is taken.
SpecSetupFair == InitSetup /\ [][NextSetup]_vars /\ WF_vars(NextSetup)

(***************************************************************************)
(* The constructions and the batches the whole life of a transform is      *)
(* explored on.  Atoms sit on the integer lattice: the first anchor at the *)
(* origin of the conformation, the second on the x axis, the third on the  *)
(* y axis, a fourth above the third, and every z-matrix atom one step away *)
(* from its first reference atom.                                          *)
(***************************************************************************)
\* The z-matrix as the sort reads it: one item per atom.
ZDict == dict(z_indices)

ZAtoms == Keys(ZDict)

\* The reference triple of z-matrix atom a, and its atoms as a set.
Refs(a) ==
    LET i == CHOOSE i \in 1 .. Len(ZDict) : ZDict[i][1] = a
    IN  ZDict[i][2]

RefsOf(a) == Range(Refs(a))

\* The constructions: dims, cart_indices and z_indices, and for the samples
\* the steps of a conformation with right bond angles.
Molecules ==
    <<[dims |-> 15, cart |-> <<1, 0, 2>>,           \* a chain, listed last atom first
       z |-> << <<4, <<3, 2, 1>>>>, <<3, <<2, 1, 0>>>> >>,
       steps |-> (3 :> <<1, 0, 0>> @@ 4 :> <<0, 0, 1>>)],
      [dims |-> 15, cart |-> <<1, 0, 2>>,           \* two atoms on the same triple
       z |-> << <<3, <<2, 1, 0>>>>, <<4, <<2, 1, 0>>>> >>,
       steps |-> (3 :> <<1, 0, 0>> @@ 4 :> <<0, 0, 1>>)],
      [dims |-> 12, cart |-> <<1, 0, 2>>,           \* one placed atom
       z |-> << <<3, <<2, 1, 0>>>> >>,
       steps |-> (3 :> <<1, 0, 0>>)],
      [dims |-> 15, cart |-> <<1, 0, 2>>,           \* atom 4 in neither list
       z |-> << <<3, <<2, 1, 0>>>> >>,
       steps |-> (3 :> <<1, 0, 0>>)],
      [dims |-> 15, cart |-> <<1, 0, 2, 3>>,        \* four anchors
       z |-> << <<4, <<3, 2, 1>>>> >>,
       steps |-> (4 :> <<1, 0, 0>>)],
      [dims |-> 12, cart |-> <<1, 0>>,              \* two anchors, atoms 2 and 3 in a cycle
       z |-> << <<2, <<1, 0, 3>>>>, <<3, <<2, 1, 0>>>> >>,
       steps |-> (2 :> <<0, 1, 0>> @@ 3 :> <<1, 0, 0>>)],
      [dims |-> 15, cart |-> <<1, 0, 2>>,           \* atoms 3 and 4 in a cycle
       z |-> << <<3, <<4, 1, 0>>>>, <<4, <<3, 2, 1>>>> >>,
       steps |-> (3 :> <<1, 0, 0>> @@ 4 :> <<0, 0, 1>>)],
      [dims |-> 15, cart |-> <<1, 0, 2>>,           \* a reference to atom 4, in neither list
       z |-> << <<3, <<2, 1, 4>>>> >>,
       steps |-> (3 :> <<1, 0, 0>>)]>>

AxisList == <<<<1, 0, 0>>, <<-1, 0, 0>>, <<0, 1, 0>>, <<0, -1, 0>>, <<0, 0, 1>>, <<0, 0, -1>>>>

IAdd(u, v) == <<u[1] + v[1], u[2] + v[2], u[3] + v[3]>>

ISub(u, v) == <<u[1] - v[1], u[2] - v[2], u[3] - v[3]>>

IScale(u, c) == <<c * u[1], c * u[2], c * u[3]>>

IDot(u, v) == u[1] * v[1] + u[2] * v[2] + u[3] * v[3]

\* A conformation: c.origin, the lengths c.legs of the two anchor legs and
\* the step c.steps[a] of every z-matrix atom a.
AnchorPos(k, legs) ==
    <<<<0, 0, 0>>, <<legs[1], 0, 0>>, <<0, legs[2], 0>>, <<0, legs[2], 1>>>>[k]

AnchorRank(cart, a) == CHOOSE k \in 1 .. Len(cart) : cart[k] = a

\* Where the atoms in neither list are put.
Aside == <<3, 3, 3>>

\* The position of atom a of molecule m; depth bounds the walk along first
\* references.
RECURSIVE Pos(_, _, _, _)
Pos(m, c, a, depth) ==
    IF a \in Range(m.cart)
    THEN IAdd(c.origin, AnchorPos(AnchorRank(m.cart, a), c.legs))
    ELSE IF a \in DOMAIN m.steps /\ depth > 0
         THEN LET i == CHOOSE i \in 1 .. Len(m.z) : m.z[i][1] = a
              IN  IAdd(Pos(m, c, m.z[i][2][1], depth - 1), c.steps[a])
         ELSE Aside

\* The row of a batch of cartesian coordinates for conformation c.
Row(m, c) ==
    LET n == m.dims \div 3
        ps == List([i \in 1 .. n |-> Pos(m, c, i - 1, n)])
    IN  List([k \in 1 .. 3 * n |-> Num(ps[((k - 1) \div 3) + 1][((k - 1) % 3) + 1])])

\* Every step at a right angle to the bond between the first two reference
\* atoms: a bond angle of pi / 2.
RightAngled(m, c) ==
    \A i \in 1 .. Len(m.z) :
        IDot(c.steps[m.z[i][1]],
             ISub(Pos(m, c, m.z[i][2][1], m.dims), Pos(m, c, m.z[i][2][2], m.dims))) = 0

BaseConf(m) == [origin |-> <<0, 0, 0>>, legs |-> <<1, 2>>, steps |-> m.steps]

RECURSIVE Pow(_, _)
Pow(b, e) == IF e = 0 THEN 1 ELSE b * Pow(b, e - 1)

\* Conformation number j of the conformations with unit steps along the
\* axes: digit i of j picks the axis of the atom of row i of the z-matrix.
ConfAt(m, j) ==
    [origin |-> <<0, 0, 0>>, legs |-> <<1, 2>>,
     steps |-> [a \in DOMAIN m.steps |->
                   LET i == CHOOSE i \in 1 .. Len(m.z) : m.z[i][1] = a
                   IN  AxisList[((j \div Pow(Len(AxisList), i - 1)) % Len(AxisList)) + 1]]]

\* The conformations with unit steps and right bond angles.
UnitConfs(m) ==
    LET all == List([j \in 1 .. Pow(Len(AxisList), Len(m.z)) |-> ConfAt(m, j - 1)])
    IN  SelectSeq(all, LAMBDA c : RightAngled(m, c))

\* Conformation c with every step k times as long.
Scaled(c, k) == [c EXCEPT !.steps = [a \in DOMAIN c.steps |-> IScale(c.steps[a], k)]]

\* Conformations off the unit ones: longer bonds, other anchor legs, another
\* origin, one bond stretched at a time, and two degenerate ones (every
\* z-matrix atom on top of its first reference atom, every step along y).
OtherConfs(m) ==
    LET b == BaseConf(m)
    IN  <<Scaled(b, 2), [b EXCEPT !.legs = <<2, 1>>], [b EXCEPT !.origin = <<1, 1, 1>>]>>
        \o List([i \in 1 .. Len(m.z) |->
               [b EXCEPT !.steps[m.z[i][1]] = IScale(b.steps[m.z[i][1]], 2)]])
        \o <<Scaled(b, 0), [b EXCEPT !.steps = [a \in DOMAIN b.steps |-> <<0, 1, 0>>]]>>

RowsOf(m, confs) == List([i \in 1 .. Len(confs) |-> Row(m, confs[i])])

\* The batches of cartesian samples of every molecule.
UnitBatch == List([i \in 1 .. Len(Molecules) |-> RowsOf(Molecules[i], UnitConfs(Molecules[i]))])

OtherBatch == List([i \in 1 .. Len(Molecules) |-> RowsOf(Molecules[i], OtherConfs(Molecules[i]))])

\* The samples of the data sets of every molecule: the base conformation,
\* and the same with steps two and three times as long.
DataRows ==
    List([i \in 1 .. Len(Molecules) |->
        LET m == Molecules[i]
        IN  <<Row(m, BaseConf(m)), Row(m, Scaled(BaseConf(m), 2)), Row(m, Scaled(BaseConf(m), 3))>>])

\* The values of the argument data for molecule i: None, a tensor with
\* three dimensions, one with too few columns, one sample, three samples.
DataChoices(i) ==
    LET n_dim == Molecules[i].dims
    IN  {None,
         [shape |-> <<1, 1, n_dim>>, rows |-> <<>>],
         [shape |-> <<1, n_dim - 3>>, rows |-> <<SubSeq(DataRows[i][1], 1, n_dim - 3)>>],
         [shape |-> <<1, n_dim>>, rows |-> <<DataRows[i][1]>>],
         [shape |-> <<3, n_dim>>, rows |-> DataRows[i]]}

\* The values of the argument ind_circ_dih for molecule i: the default, and
\* for the chain the first dihedral as well.
CircChoices(i) == IF i = 1 THEN {<<>>, <<0>>} ELSE {<<>>}

\* The molecule under construction.
Molecule ==
    CHOOSE i \in 1 .. Len(Molecules) :
        /\ dims = Molecules[i].dims
        /\ cart_indices = Molecules[i].cart
        /\ z_indices = Molecules[i].z

CartBatches == {UnitBatch[Molecule], OtherBatch[Molecule]}

\* An internal-coordinate sample is given by the values its coordinates
\* have once un-normalised: the anchor legs and, for every z-matrix atom,
\* bond, angle and dih.
StatsOf(a) == idx.atom_to_stats[a] + 1

Normalized(v, mean, sd) == RDiv(RSub(v, mean), sd)

BaseSample ==
    [legs |-> <<1, 2>>,
     bond |-> [a \in ZAtoms |-> Num(1)],
     angle |-> [a \in ZAtoms |-> RDiv(pi, Num(2))],
     dih |-> [a \in ZAtoms |-> stats.mean_dih[StatsOf(a)]]]

\* The row of InternalCoordinateTransform.inverse for sample s.
ZRow(s) ==
    Flatten(List([i \in 1 .. n_atoms |->
        LET a == i - 1
        IN  IF a \in Range(cart_indices)
            THEN LET p == AnchorPos(AnchorRank(cart_indices, a), s.legs)
                 IN  <<Num(p[1]), Num(p[2]), Num(p[3])>>
            ELSE IF a \in ZAtoms
                 THEN <<Normalized(s.bond[a], stats.mean_bonds[StatsOf(a)],
                                   stats.std_bonds[StatsOf(a)]),
                        Normalized(s.angle[a], stats.mean_angles[StatsOf(a)],
                                   stats.std_angles[StatsOf(a)]),
                        Normalized(s.dih[a], stats.mean_dih[StatsOf(a)],
                                   stats.std_dih[StatsOf(a)])>>
                 ELSE <<Num(0), Num(0), Num(0)>>]))

\* The row of CompleteInternalCoordinateTransform.inverse for sample s:
\* b1, b2 and the angle of the anchors, then the internal coordinates in the
\* order of permute.
CompleteRow(s) ==
    <<Normalized(Num(s.legs[1]), cstats.mean_b1, cstats.std_b1),
      Normalized(Num(s.legs[2]), cstats.mean_b2, cstats.std_b2),
      Normalized(RDiv(pi, Num(2)), cstats.mean_angle, cstats.std_angle)>>
    \o SubSeq(Gather(ZRow(s), cstats.permute), 3 * Len(cart_indices) + 1, dims)

\* The last atom of the z-matrix.
LastZ == z_indices[Len(z_indices)][1]

Eps == Rat(1, 2)

\* The dihedral of the last atom a whole number of quarter turns off its
\* mean, from -MaxTurns to MaxTurns.
TurnSamples ==
    LET b == BaseSample
    IN  List([t \in 1 .. 2 * MaxTurns + 1 |->
            [b EXCEPT !.dih[LastZ] =
                RAdd(b.dih[LastZ], RMul(Num(t - MaxTurns - 1), RDiv(pi, Num(2))))]])

\* Angles at and around the ends of [-pi, pi], on every atom at once.
EdgeAngles ==
    <<RAdd(pi, Eps), RSub(pi, Eps), RSub(RNeg(pi), Eps), RAdd(RNeg(pi), Eps), pi, RNeg(pi),
      RDiv(RMul(Num(3), pi), Num(2)), RNeg(RDiv(pi, Num(2)))>>

EdgeSamples ==
    LET b == BaseSample
    IN  List([i \in 1 .. Len(EdgeAngles) |-> [b EXCEPT !.dih = [a \in ZAtoms |-> EdgeAngles[i]]]])
        \o List([i \in 1 .. Len(EdgeAngles) |->
               [b EXCEPT !.angle = [a \in ZAtoms |-> EdgeAngles[i]]]])
        \o <<[b EXCEPT !.bond = [a \in ZAtoms |-> Num(2)]],
             [b EXCEPT !.bond = [a \in ZAtoms |-> Num(-1)]],
             [b EXCEPT !.legs = <<2, 1>>]>>

\* The batches of internal-coordinate samples of the two classes.
ZBatches ==
    {List([i \in 1 .. Len(ss) |-> ZRow(ss[i])]) : ss \in {TurnSamples, EdgeSamples}}

CompleteBatches ==
    {List([i \in 1 .. Len(ss) |-> CompleteRow(ss[i])]) : ss \in {TurnSamples, EdgeSamples}}

CallForward ==
    /\ pc = "ready"
    /\ mode = "ict"
    /\ \E x \in Inputs("forward", CartBatches) : ForwardCall(x)
    /\ UNCHANGED <<pc, setupVars, mode, data, default_std, ind_circ_dih, cstats>>

CallInverse ==
    /\ pc = "ready"
    /\ mode = "ict"
    /\ \E x \in Inputs("inverse", ZBatches) : InverseCall(x)
    /\ UNCHANGED <<pc, setupVars, mode, data, default_std, ind_circ_dih, cstats>>

CallCompleteForward ==
    /\ pc = "ready"
    /\ mode = "complete"
    /\ \E x \in Inputs("forward", CartBatches) : CompleteForwardCall(x)
    /\ UNCHANGED <<pc, setupVars, mode, data, default_std, ind_circ_dih, cstats>>

CallCompleteInverse ==
    /\ pc = "ready"
    /\ mode = "complete"
    /\ \E x \in Inputs("inverse", CompleteBatches) : CompleteInverseCall(x)
    /\ UNCHANGED <<pc, setupVars, mode, data, default_std, ind_circ_dih, cstats>>

Init ==
    /\ \E i \in 1 .. Len(Molecules) :
          /\ dims = Molecules[i].dims
          /\ cart_indices = Molecules[i].cart
          /\ z_indices = Molecules[i].z
          /\ data \in DataChoices(i)
          /\ ind_circ_dih \in CircChoices(i)
    /\ mode \in {"ict", "complete"}
    /\ pc = IF mode = "complete" THEN "assert" ELSE "topological_sort"
    /\ graph_unsorted = IF mode = "complete" THEN <<>> ELSE dict(z_indices)
    /\ graph_sorted = <<>>
    /\ sorted_z_indices = <<>>
    /\ all_cart = {}
    /\ current_cart_ind = 0
    /\ blocks = <<>>
    /\ rev_perm = <<>>
    /\ rev_perm_inv = <<>>
    /\ idx = <<>>
    /\ default_std = DefaultStd
    /\ stats = Unset
    /\ cstats = Unset
    /\ angle_loss = Unset
    /\ ret = NoCall

Next ==
    \/ AssertAnchors
    \/ TopoPass
    \/ SetupIndices
    \/ BlockPass
    \/ BlocksDone
    \/ ValidateData
    \/ FitStatistics
    \/ BuildPermute
    \/ CallForward
    \/ CallInverse
    \/ CallCompleteForward
    \/ CallCompleteInverse

Spec == Init /\ [][Next]_vars

(***************************************************************************)
(* What the claims speak of.                                               *)
(***************************************************************************)
\* A dependency cycle: z-matrix atoms p[1], ..., p[m], each referencing the
\* next and the last referencing the first (m = 1: an atom referencing
\* itself).
HasCycle ==
    \E m \in 1 .. Cardinality(ZAtoms) :
        \E p \in [1 .. m -> ZAtoms] :
            /\ \A i \in 1 .. m - 1 : p[i + 1] \in RefsOf(p[i])
            /\ p[1] \in RefsOf(p[m])

\* topological_sort has returned its list.
SortReturned ==
    \/ pc = "topological_sort" /\ graph_unsorted = <<>>
    \/ pc \notin {"topological_sort", "RuntimeError"}

\* The position of atom a in the sorted list (0 when absent).
PosInSorted(a) ==
    IF \E i \in 1 .. Len(graph_sorted) : graph_sorted[i][1] = a
    THEN CHOOSE i \in 1 .. Len(graph_sorted) : graph_sorted[i][1] = a
    ELSE 0

\* C1: for a z-matrix without a dependency cycle topological_sort does not
\* raise, and the list it returns holds every atom of the z-matrix exactly
\* once (with its own reference triple), each atom after every one of its
\* reference atoms that is itself an atom of the z-matrix.
C1_SortOrder ==
    ~HasCycle =>
        /\ pc # "RuntimeError"
        /\ SortReturned =>
            /\ Len(graph_sorted) = Cardinality(ZAtoms)
            /\ {graph_sorted[i] : i \in 1 .. Len(graph_sorted)} = Range(ZDict)
            /\ \A a \in ZAtoms : \A r \in RefsOf(a) \cap ZAtoms :
                   PosInSorted(r) < PosInSorted(a)

\* C1 witness: a returned list in which the second atom of the input is
\* first, because the first atom of the input references it.
C1_Witness ==
    /\ SortReturned
    /\ ~HasCycle
    /\ Len(graph_sorted) >= 2
    /\ Len(z_indices) >= 2
    /\ graph_sorted[1][1] = z_indices[2][1]
    /\ z_indices[2][1] \in Range(z_indices[1][2])

\* C2: for a z-matrix with a dependency cycle topological_sort never
\* returns: it is either still in its loop with unresolved atoms left, or
\* it has raised the cyclic-dependency error.
C2_CycleRaises ==
    HasCycle =>
        /\ ~SortReturned
        /\ \/ pc = "RuntimeError"
           \/ pc = "topological_sort" /\ graph_unsorted # <<>>

\* C2 witness: the error raised although part of the z-matrix had been
\* sorted.
C2_Witness ==
    /\ HasCycle
    /\ pc = "RuntimeError"
    /\ graph_sorted # <<>>

\* The atoms placed by block b.
BlockAtoms(b) == {blocks[b][k][1] : k \in 1 .. Len(blocks[b])}

\* C3: every reference of every atom of every block is an anchor atom or
\* an atom of a strictly earlier block.
C3_BlockRefsEarlier ==
    pc \in {"blocks", "validate", "IndexError"} =>
        \A b \in 1 .. Len(blocks) : \A a \in BlockAtoms(b) :
            \A r \in RefsOf(a) :
                \/ r \in Range(cart_indices)
                \/ \E e \in 1 .. b - 1 : r \in BlockAtoms(e)

\* C3 witness: the block loop has ended with two blocks, the second one
\* holding an atom that references an atom of the first.
C3_Witness ==
    /\ pc = "validate"
    /\ Len(blocks) = 2
    /\ \E a \in BlockAtoms(2) : RefsOf(a) \cap BlockAtoms(1) # {}

(***************************************************************************)
(* Calls on a constructed transform.                                       *)
(***************************************************************************)
\* Every atom is an anchor or an atom of the z-matrix.
Covered == Range(cart_indices) \cup ZAtoms = 0 .. n_atoms - 1

\* Every column of the row is a number: nothing was divided by a zero norm,
\* and the exact arithmetic could follow the computation.
Representable(row) == \A k \in 1 .. Len(row) : IsNum(row[k])

\* Column 3 a + off of the internal row z for z-matrix atom a, un-normalised
\* with the standard deviation sd and the mean.
Raw(z, a, off, sd, mean) == RAdd(RMul(z[3 * a + off + 1], sd[StatsOf(a)]), mean[StatsOf(a)])

\* A valid internal row: every bond positive, every bond angle strictly
\* between 0 and pi, every dihedral channel (before the mean is added back)
\* in [-pi, pi).
ValidInternal(z) ==
    \A a \in ZAtoms :
        /\ RGt(Raw(z, a, 0, stats.std_bonds, stats.mean_bonds), Num(0))
        /\ RGt(Raw(z, a, 1, stats.std_angles, stats.mean_angles), Num(0))
        /\ RLt(Raw(z, a, 1, stats.std_angles, stats.mean_angles), pi)
        /\ IsNum(z[3 * a + 3]) /\ IsNum(stats.std_dih[StatsOf(a)])
        /\ ~RLt(RMul(z[3 * a + 3], stats.std_dih[StatsOf(a)]), RNeg(pi))
        /\ RLt(RMul(z[3 * a + 3], stats.std_dih[StatsOf(a)]), pi)

\* The last call was made on an InternalCoordinateTransform, on the batch
\* the call in the other direction had just returned.
RoundTrip(op) == mode = "ict" /\ pc = "ready" /\ ret.op = op /\ ret.chained

C5_SumIsScaleJac ==
    RoundTrip("inverse") =>
        \A r \in 1 .. Len(ret.x) :
            IsNum(ret.prev_jac[r]) /\ IsNum(ret.jac[r])
                => LogAdd(ret.prev_jac[r], ret.jac[r]) = stats.scale_jac

\* C5: over a round trip inverse(forward(x)) the log-determinant forward
\* returned and the one inverse returned sum to zero whenever both are
\* finite: the per-atom terms cancel, and so does scale_jac, which forward
\* adds and inverse subtracts.
C5_SumIsZero ==
    RoundTrip("inverse") =>
        \A r \in 1 .. Len(ret.x) :
            IsNum(ret.prev_jac[r]) /\ IsNum(ret.jac[r])
                => LogAdd(ret.prev_jac[r], ret.jac[r]) = LogZero

\* C5 witness: a round trip with scale_jac different from zero and a bond
\* whose logarithm is not zero, the two log-determinants summing to zero.
C5_Witness ==
    /\ RoundTrip("inverse")
    /\ stats.scale_jac # LogZero
    /\ \E r \in 1 .. Len(ret.x) :
           /\ IsNum(ret.prev_jac[r]) /\ IsNum(ret.jac[r])
           /\ ret.prev_jac[r] # stats.scale_jac
           /\ LogAdd(ret.prev_jac[r], ret.jac[r]) = LogZero

\* The batch has n rows of w columns.
HasShape(x, n, w) == Len(x) = n /\ \A r \in 1 .. n : Len(x[r]) = w

\* C6 as stated: every forward and every inverse, of either class, takes a
\* batch of 3N columns and returns one of 3N columns.
C6_AllWidthsEqual ==
    pc = "ready" /\ ret.op # "none" =>
        /\ HasShape(ret.x, Len(ret.x), dims)
        /\ HasShape(ret.out, Len(ret.x), dims)

\* C6: forward and inverse of InternalCoordinateTransform take 3N columns
\* and return 3N columns; forward of CompleteInternalCoordinateTransform
\* takes 3N columns and returns 3N - 6, and its inverse takes 3N - 6 columns
\* and returns 3N; every call returns one log-determinant for each sample.
C6_Widths ==
    pc = "ready" /\ ret.op # "none" =>
        /\ Len(ret.jac) = Len(ret.x)
        /\ mode = "ict" =>
               HasShape(ret.x, Len(ret.x), dims) /\ HasShape(ret.out, Len(ret.x), dims)
        /\ mode = "complete" /\ ret.op = "forward" =>
               HasShape(ret.x, Len(ret.x), dims) /\ HasShape(ret.out, Len(ret.x), dims - 6)
        /\ mode = "complete" /\ ret.op = "inverse" =>
               HasShape(ret.x, Len(ret.x), dims - 6) /\ HasShape(ret.out, Len(ret.x), dims)

\* C6 witness: forward of the complete transform has returned 9 columns
\* for a molecule of 5 atoms.
C6_Witness ==
    /\ pc = "ready"
    /\ mode = "complete"
    /\ ret.op = "forward"
    /\ dims = 15
    /\ Len(ret.x) > 1
    /\ HasShape(ret.out, Len(ret.x), 9)

(***************************************************************************)
(* Construction.                                                           *)
(***************************************************************************)
\* The data set is absent, not 2-dimensional, or of another width than dims.
BadData == data = None \/ Len(data.shape) # 2 \/ data.shape[2] # dims

\* _validate_data has been called and has returned or raised.
Validated ==
    \/ pc \in {"ValueError", "statistics", "permute", "ready"}
    \/ pc = "IndexError" /\ stats # Unset

\* C7 as stated: with such a data set the construction of an
\* InternalCoordinateTransform ends in no other way than the validation
\* error.
C7_BadDataRaisesValueError ==
    mode = "ict" /\ BadData => pc \notin {"RuntimeError", "IndexError", "ready"}

\* C7: with a data set that is absent, not 2-dimensional or of another
\* width than dims, no transform and no statistics are produced; the
\* validation error is raised for such a data set, and only for such a one,
\* once topological_sort and _setup_indices have returned (a z-matrix with a
\* dependency cycle ends the construction with the RuntimeError of the sort,
\* whatever the data set).
C7_ValidationAfterSetup ==
    /\ BadData => stats = Unset /\ cstats = Unset /\ ret = NoCall
                  /\ pc \notin {"statistics", "permute", "ready"}
    /\ Validated => (pc = "ValueError" <=> BadData)
    /\ pc = "ValueError" => Validated /\ ~HasCycle /\ graph_unsorted = <<>> /\ blocks # <<>>
    /\ HasCycle /\ BadData => pc # "ValueError"

\* C7 witness: the construction has ended with the RuntimeError of the sort
\* on a data set that is absent.
C7_Witness ==
    /\ mode = "ict"
    /\ data = None
    /\ pc = "RuntimeError"

\* C7 witness of the validation error itself: raised for a data set with too
\* few columns after the index setup has built its blocks.
C7_ValueErrorWitness ==
    /\ pc = "ValueError"
    /\ data # None
    /\ Len(data.shape) = 2
    /\ blocks # <<>>

Penalty(a) ==
    IF RGt(a, pi) THEN RMul(RSub(a, pi), RSub(a, pi))
    ELSE IF RLt(a, RNeg(pi)) THEN RMul(RAdd(a, pi), RAdd(a, pi))
    ELSE Num(0)

RECURSIVE PenaltySum(_)
PenaltySum(angles) ==
    IF angles = <<>> THEN Num(0) ELSE RAdd(Penalty(Head(angles)), PenaltySum(Tail(angles)))

\* C9: for the bond angles and for the dihedrals of every block of every
\* row of an inverse call, _periodic_angle_loss has returned the sum over
\* the angles a of (a - pi)^2 for a > pi, (a + pi)^2 for a < -pi and 0
\* otherwise.
C9_PeriodicPenalty ==
    pc = "ready" /\ ret.op = "inverse" =>
        \A r \in 1 .. Len(ret.steps) : \A b \in 1 .. Len(ret.steps[r]) :
            /\ ret.steps[r][b].loss_angles = PenaltySum(ret.steps[r][b].angles)
            /\ ret.steps[r][b].loss_dihs = PenaltySum(ret.steps[r][b].dihs)

\* C9 witness: a block of two atoms whose dihedrals are both pi + Eps, with
\* penalty 2 Eps^2, and in the same batch one whose dihedrals are pi - Eps,
\* with penalty 0.
C9_Witness ==
    /\ pc = "ready"
    /\ ret.op = "inverse"
    /\ \E r \in 1 .. Len(ret.steps) : \E b \in 1 .. Len(ret.steps[r]) :
           /\ ret.steps[r][b].dihs = <<RAdd(pi, Eps), RAdd(pi, Eps)>>
           /\ ret.steps[r][b].loss_dihs = RMul(Num(2), RMul(Eps, Eps))
    /\ \E r \in 1 .. Len(ret.steps) : \E b \in 1 .. Len(ret.steps[r]) :
           /\ ret.steps[r][b].dihs = <<RSub(pi, Eps), RSub(pi, Eps)>>
           /\ ret.steps[r][b].loss_dihs = Num(0)

\* The penalties of all blocks of one row of an inverse call.
RECURSIVE TotalLoss(_)
TotalLoss(steps) ==
    IF steps = <<>> THEN Num(0)
    ELSE RAdd(RAdd(Head(steps).loss_angles, Head(steps).loss_dihs), TotalLoss(Tail(steps)))

\* C10: after an inverse call angle_loss holds, for every row, the
\* penalties of the blocks of that call and nothing of what it held before;
\* after a forward call it holds what it held before the call.
C10_PenaltyReset ==
    pc = "ready" =>
        /\ ret.op = "inverse" =>
               /\ Len(angle_loss) = Len(ret.x)
               /\ \A r \in 1 .. Len(ret.x) : angle_loss[r] = TotalLoss(ret.steps[r])
        /\ ret.op = "forward" => angle_loss = ret.loss_before

\* C10 witness: an inverse call has left a penalty of zero in a row in which
\* the attribute held a positive penalty before the call.
C10_Witness ==
    /\ pc = "ready"
    /\ mode = "ict"
    /\ ret.op = "inverse"
    /\ \E r \in 1 .. Len(ret.x) :
           /\ r <= Len(ret.loss_before)
           /\ RGt(ret.loss_before[r], Num(0))
           /\ angle_loss[r] = Num(0)

\* C10 witness for forward: a forward call made while the attribute held a
\* positive penalty.
C10_ForwardWitness ==
    /\ pc = "ready"
    /\ ret.op = "forward"
    /\ angle_loss # Unset
    /\ \E r \in 1 .. Len(angle_loss) : RGt(angle_loss[r], Num(0))

\* C11: no call of forward or inverse, of either class, changes the
\* statistics of the bonds, angles and dihedrals, those of the anchor
\* frame, the two scale_jac, the blocks or any permutation vector.
C11_BuffersImmutable ==
    [][pc = "ready" =>
           /\ stats' = stats /\ cstats' = cstats
           /\ blocks' = blocks /\ idx' = idx
           /\ rev_perm' = rev_perm /\ rev_perm_inv' = rev_perm_inv]_vars

\* C11 witness: an inverse call made on what a forward call returned, which
\* itself was made on what an inverse call had returned, on a complete
\* transform fitted to three samples.
C11_Witness ==
    /\ pc = "ready"
    /\ mode = "complete"
    /\ Len(data.rows) = 3
    /\ ret.op = "inverse"
    /\ ret.chained
    /\ angle_loss # Unset
    /\ ret.loss_before # Unset

\* The statistics are fitted: stats holds the buffers of the constructor.
Fitted == stats # Unset /\ data # None

\* The anchor statistics are fitted.
AnchorsFitted == Fitted /\ cstats # Unset /\ ~cstats.err

Constant(v, c) == \A i \in 1 .. Len(v) : v[i] = c

\* The tensor `transformed` of line 119.
Transformed == List([r \in 1 .. Len(data.rows) |-> Fwd(idx, data.rows[r]).x])

\* The dihedral columns at line 134: the mean subtracted and wrapped.
TransformedDih ==
    with_mean_dih(idx, [x |-> Transformed, mean_bonds |-> stats.mean_bonds,
                        std_bonds |-> stats.std_bonds, mean_angles |-> stats.mean_angles,
                        std_angles |-> stats.std_angles], stats.mean_dih).x

\* The sample standard deviations of the columns cols of t equal v.
SampleStds(t, cols, v) ==
    /\ Len(v) = Len(cols)
    /\ \A i \in 1 .. Len(cols) : v[i] = Std(Column(t, cols[i]))

\* The anchor frame b1, b2, angle of every data row.
AnchorFrames ==
    List([r \in 1 .. Len(data.rows) |->
        convert_last_internal(SubSeq(Gather(data.rows[r], cstats.permute), 1, 9))])

\* With more than one row every standard deviation is that of the samples.
ManyRowsStds ==
    /\ Fitted /\ Len(data.rows) > 1 =>
           /\ SampleStds(Transformed, idx.bond_indices, stats.std_bonds)
           /\ SampleStds(Transformed, idx.angle_indices, stats.std_angles)
           /\ SampleStds(TransformedDih, idx.dih_indices, stats.std_dih)
    /\ AnchorsFitted /\ Len(data.rows) > 1 =>
           /\ cstats.std_b1 = Std(List([r \in 1 .. Len(data.rows) |-> AnchorFrames[r].b1]))
           /\ cstats.std_b2 = Std(List([r \in 1 .. Len(data.rows) |-> AnchorFrames[r].b2]))
           /\ cstats.std_angle = Std(List([r \in 1 .. Len(data.rows) |-> AnchorFrames[r].angle]))

\* With one row the bonds, the angles and the anchor frame get the defaults.
OneRowDefaults ==
    /\ Fitted /\ Len(data.rows) = 1 =>
           /\ Constant(stats.std_bonds, default_std.bond)
           /\ Constant(stats.std_angles, default_std.angle)
    /\ AnchorsFitted /\ Len(data.rows) = 1 =>
           /\ cstats.std_b1 = default_std.bond
           /\ cstats.std_b2 = default_std.bond
           /\ cstats.std_angle = default_std.angle

\* C12 as stated: with one row every dihedral standard deviation is
\* default_std['dih'] as well.
C12_AllDihedralsDefault ==
    /\ OneRowDefaults
    /\ ManyRowsStds
    /\ Fitted /\ Len(data.rows) = 1 => Constant(stats.std_dih, default_std.dih)

\* C12: with one row of data every bond standard deviation is
\* default_std['bond'], every angle one default_std['angle'], the anchor
\* frame has the bond, bond and angle defaults, and a dihedral has
\* default_std['dih'] unless ind_circ_dih lists it, when it has 1; with more
\* than one row every standard deviation is the one of the samples.
C12_SingleSampleFallback ==
    /\ OneRowDefaults
    /\ ManyRowsStds
    /\ Fitted /\ Len(data.rows) = 1 =>
           /\ Len(stats.std_dih) = Len(idx.dih_indices)
           /\ \A i \in 1 .. Len(stats.std_dih) :
                  stats.std_dih[i] = IF i - 1 \in Range(ind_circ_dih) THEN Num(1)
                                     ELSE default_std.dih

\* C12 witness: a complete transform fitted to one row with the first
\* dihedral in ind_circ_dih.
C12_Witness ==
    /\ pc = "ready"
    /\ mode = "complete"
    /\ AnchorsFitted
    /\ Len(data.rows) = 1
    /\ ind_circ_dih = <<0>>
    /\ stats.std_dih = <<Num(1), default_std.dih>>
    /\ stats.std_bonds = <<default_std.bond, default_std.bond>>

\* C12 witness for more than one row: no standard deviation is a default.
C12_ManyRowsWitness ==
    /\ pc = "ready"
    /\ mode = "complete"
    /\ AnchorsFitted
    /\ Len(data.rows) = 3
    /\ stats.std_bonds = <<Num(1), Num(1)>>
    /\ stats.std_angles = <<Num(0), Num(0)>>
    /\ cstats.std_b1 = Num(0)

\* The anchors and the atoms of the z-matrix list every atom exactly once.
ExactlyOnce ==
    /\ Covered
    /\ Len(cart_indices) + Len(z_indices) = n_atoms
    /\ dims = 3 * n_atoms

\* The permutation vectors are built.
Permuted == pc = "ready" /\ mode = "complete" /\ cstats # Unset /\ ~cstats.err

\* permute and permute_inv are permutations of 0 .. dims - 1, each the
\* inverse of the other.
MutuallyInverse ==
    /\ Len(cstats.permute) = dims /\ Len(cstats.permute_inv) = dims
    /\ Range(cstats.permute) = 0 .. dims - 1
    /\ Range(cstats.permute_inv) = 0 .. dims - 1
    /\ \A k \in 0 .. dims - 1 :
           /\ cstats.permute[cstats.permute_inv[k + 1] + 1] = k
           /\ cstats.permute_inv[cstats.permute[k + 1] + 1] = k

\* The three columns of atom a are the ones permute has at place i (from 0).
PlacedAt(a, i) == \A c \in 0 .. 2 : cstats.permute[3 * i + c + 1] = 3 * a + c

AnchorsFirst == \A i \in 1 .. Len(cart_indices) : PlacedAt(cart_indices[i], i - 1)

\* C13 as stated: the atoms of the z-matrix follow the anchors in the order
\* topological_sort gave them.
C13_SortedOrder ==
    Permuted /\ ExactlyOnce =>
        /\ MutuallyInverse
        /\ AnchorsFirst
        /\ \A k \in 1 .. Len(graph_sorted) :
               PlacedAt(graph_sorted[k][1], Len(cart_indices) + k - 1)

\* C13: when the three anchors and the atoms of the z-matrix list every atom
\* exactly once, permute and permute_inv are permutations of 0 .. 3N-1, each
\* the inverse of the other, permute has the nine anchor columns first, and
\* the atoms of the z-matrix follow in the order of the rows of z_mat as it
\* was passed.
C13_PermuteVectors ==
    Permuted /\ ExactlyOnce =>
        /\ MutuallyInverse
        /\ AnchorsFirst
        /\ \A k \in 1 .. Len(z_indices) :
               PlacedAt(z_indices[k][1], Len(cart_indices) + k - 1)

\* C13 witness: the chain, whose z_mat lists atom 4 before atom 3 while the
\* sorted order is 3, 4.
C13_Witness ==
    /\ Permuted /\ ExactlyOnce
    /\ FirstOfRows(z_indices) = <<4, 3>>
    /\ FirstOfRows(graph_sorted) = <<3, 4>>
    /\ cstats.permute = <<3, 4, 5, 0, 1, 2, 6, 7, 8, 12, 13, 14, 9, 10, 11>>

\* A forward call of InternalCoordinateTransform has returned.
ForwardDone == pc = "ready" /\ mode = "ict" /\ ret.op = "forward"

\* The dihedral of place i of row r of the last forward call, before
\* _fix_dih and after it.
ShiftedDih(r, i) == ret.steps[r].shifted[idx.dih_indices[i] + 1]

FixedDih(r, i) == ret.steps[r].fixed[idx.dih_indices[i] + 1]

\* a and b differ by a multiple of 2 pi.
SameTurn(a, b) == RMod(RSub(a, b), RMul(Num(2), pi)) = Num(0)

\* What forward returns is the wrapped dihedral over std_dih.
DividedAfterFix(r, i) ==
    ret.out[r][idx.dih_indices[i] + 1] = RDiv(FixedDih(r, i), stats.std_dih[i])

\* C14 as stated: the dihedral forward divides by std_dih lies in (-pi, pi]
\* and differs from the mean-subtracted one by a multiple of 2 pi.
C14_HalfOpenAbove ==
    ForwardDone =>
        \A r \in 1 .. Len(ret.x) : \A i \in 1 .. Len(idx.dih_indices) :
            IsNum(ShiftedDih(r, i)) =>
                /\ DividedAfterFix(r, i)
                /\ RGt(FixedDih(r, i), RNeg(pi))
                /\ ~RGt(FixedDih(r, i), pi)
                /\ SameTurn(FixedDih(r, i), ShiftedDih(r, i))

\* C14: in forward every dihedral, just before it is divided by std_dih,
\* lies in [-pi, pi) and differs from the mean-subtracted dihedral by a
\* multiple of 2 pi.
C14_WrappedDihedral ==
    ForwardDone =>
        \A r \in 1 .. Len(ret.x) : \A i \in 1 .. Len(idx.dih_indices) :
            IsNum(ShiftedDih(r, i)) =>
                /\ DividedAfterFix(r, i)
                /\ ~RLt(FixedDih(r, i), RNeg(pi))
                /\ RLt(FixedDih(r, i), pi)
                /\ SameTurn(FixedDih(r, i), ShiftedDih(r, i))

\* C14 witness: a forward call in which a mean-subtracted dihedral is pi
\* and the wrapped one -pi.
C14_Witness ==
    /\ ForwardDone
    /\ \E r \in 1 .. Len(ret.x) : \E i \in 1 .. Len(idx.dih_indices) :
           /\ ShiftedDih(r, i) = pi
           /\ FixedDih(r, i) = RNeg(pi)

\* C14 witness for a dihedral that leaves [-pi, pi) when the mean is
\* subtracted and is wrapped back by a full turn.
C14_TurnWitness ==
    /\ ForwardDone
    /\ \E r \in 1 .. Len(ret.x) : \E i \in 1 .. Len(idx.dih_indices) :
           /\ IsNum(ShiftedDih(r, i))
           /\ \/ RLt(ShiftedDih(r, i), RNeg(pi))
              \/ RGt(ShiftedDih(r, i), pi)
           /\ FixedDih(r, i) # ShiftedDih(r, i)

\* An inverse call has returned.
InverseDone == pc = "ready" /\ ret.op = "inverse"

\* The (row, block, atom) places of the last inverse call whose
\* un-normalised dihedral is a number.
DihPlaces ==
    {p \in (1 .. Len(ret.steps)) \X (1 .. Len(blocks)) \X (1 .. MaxZ) :
        /\ p[2] <= Len(ret.steps[p[1]])
        /\ p[3] <= Len(ret.steps[p[1]][p[2]].dihs)
        /\ IsNum(ret.steps[p[1]][p[2]].dihs[p[3]])}

\* The un-normalised dihedral at place p and the one reconstruct_cart gets.
DihAt(p) == ret.steps[p[1]][p[2]].dihs[p[3]]

FixedAt(p) == ret.steps[p[1]][p[2]].fixed[p[3]]

InRange(d) == RGt(d, RNeg(pi)) /\ ~RGt(d, pi)

\* C15: in inverse the dihedral passed to the reconstruction lies in
\* (-pi, pi] and differs from the un-normalised dihedral by a multiple of
\* 2 pi, whatever the magnitude of the un-normalised dihedral.
C15_WrappedIntoRange ==
    InverseDone =>
        \A p \in DihPlaces : InRange(FixedAt(p)) /\ SameTurn(FixedAt(p), DihAt(p))

\* What lines 248-249 do: at most one turn is added or taken, so that the
\* result lies in (-pi, pi] for the dihedrals of (-3 pi, 3 pi] and for no
\* other.
C15_SingleTurn ==
    InverseDone =>
        \A p \in DihPlaces :
            /\ SameTurn(FixedAt(p), DihAt(p))
            /\ RAbs(RSub(FixedAt(p), DihAt(p))) \in {Num(0), RMul(Num(2), pi)}
            /\ InRange(FixedAt(p)) <=>
                   /\ RGt(DihAt(p), RNeg(RMul(Num(3), pi)))
                   /\ ~RGt(DihAt(p), RMul(Num(3), pi))

\* An inverse call with an un-normalised dihedral of 7 pi / 2, passed to
\* the reconstruction as 3 pi / 2.
C15_Witness ==
    /\ InverseDone
    /\ \E p \in DihPlaces :
           /\ DihAt(p) = RDiv(RMul(Num(7), pi), Num(2))
           /\ FixedAt(p) = RDiv(RMul(Num(3), pi), Num(2))

\* The three columns of atom a in row r of what the last call was given
\* and of what it returned.
InPos(r, a) == <<ret.x[r][3 * a + 1], ret.x[r][3 * a + 2], ret.x[r][3 * a + 3]>>

OutPos(r, a) == <<ret.out[r][3 * a + 1], ret.out[r][3 * a + 2], ret.out[r][3 * a + 3]>>

\* The (row, block, atom) places of the last inverse call.
BuiltPlaces ==
    {p \in (1 .. Len(ret.steps)) \X (1 .. Len(blocks)) \X (1 .. MaxZ) :
        /\ p[2] <= Len(ret.steps[p[1]])
        /\ p[3] <= Len(ret.steps[p[1]][p[2]].atoms)}

StepAt(p) == ret.steps[p[1]][p[2]]

\* The indices of place p are rows cart had when its block started, and
\* rev_perm names the reference atoms of the z-matrix for them.
RemappedRefs(p) ==
    \A j \in 1 .. 3 :
        /\ StepAt(p).ref_atoms[p[3]][j] >= 0
        /\ StepAt(p).ref_atoms[p[3]][j] < StepAt(p).buffer_rows
        /\ rev_perm[StepAt(p).ref_atoms[p[3]][j]] = Refs(StepAt(p).atoms[p[3]])[j]

\* The row the atom of place p is appended as is the one rev_perm has for it.
AppendedRow(p) == rev_perm[StepAt(p).buffer_rows + p[3] - 1] = StepAt(p).atoms[p[3]]

\* In what inverse returned the atom of place p is where reconstruct_cart
\* puts it from the returned positions of its reference atoms.
BuiltFromRefs(p) ==
    OutPos(p[1], StepAt(p).atoms[p[3]]) =
        ReconstructAtom(OutPos(p[1], Refs(StepAt(p).atoms[p[3]])[1]),
                        OutPos(p[1], Refs(StepAt(p).atoms[p[3]])[2]),
                        OutPos(p[1], Refs(StepAt(p).atoms[p[3]])[3]),
                        StepAt(p).bonds[p[3]], StepAt(p).angles[p[3]], StepAt(p).fixed[p[3]])

\* rev_perm and rev_perm_inv are each the inverse of the other.
RevPermInverse ==
    \A i \in 0 .. n_atoms - 1 :
        /\ rev_perm[i] \in 0 .. n_atoms - 1
        /\ rev_perm_inv[rev_perm[i]] = i
        /\ rev_perm[rev_perm_inv[i]] = i

\* C16: when the anchors and the atoms of the z-matrix list every atom
\* exactly once, in inverse every remapped reference index of a block is a
\* row the cartesian buffer had when the block started, that row is the one
\* of the reference atom of the z-matrix, rev_perm_inv is the inverse of
\* rev_perm, and the gather at the end has atom a at columns 3a .. 3a+2:
\* the anchors where the input has them, every other atom where the
\* reconstruction puts it from the returned positions of its references.
C16_RemappedReferences ==
    InverseDone /\ ExactlyOnce =>
        /\ RevPermInverse
        /\ \A i \in 1 .. Len(cart_indices) : rev_perm[i - 1] = cart_indices[i]
        /\ \A p \in BuiltPlaces : RemappedRefs(p) /\ AppendedRow(p) /\ BuiltFromRefs(p)
        /\ mode = "ict" =>
               \A r \in 1 .. Len(ret.x) : \A a \in Range(cart_indices) :
                   OutPos(r, a) = InPos(r, a)

\* C16 witness: an inverse call on the chain, two blocks of one atom, whose
\* remapped references are not the atoms of the z-matrix, with a row whose
\* positions are all numbers.
C16_Witness ==
    /\ InverseDone /\ ExactlyOnce
    /\ mode = "ict"
    /\ Len(blocks) = 2
    /\ \E p \in BuiltPlaces :
           /\ p[2] = 2
           /\ StepAt(p).ref_atoms[p[3]] # Refs(StepAt(p).atoms[p[3]])
           /\ Representable(ret.out[p[1]])
           /\ OutPos(p[1], StepAt(p).atoms[p[3]]) # OutPos(p[1], Refs(StepAt(p).atoms[p[3]])[1])

\* The atoms available when block b starts: the anchors and the atoms of
\* the blocks before it.
AvailableAt(b) == Range(cart_indices) \cup UNION {BlockAtoms(e) : e \in 1 .. b - 1}

\* The atoms of the z-matrix no block before b has placed.
NotYetPlaced(b) == ZAtoms \ UNION {BlockAtoms(e) : e \in 1 .. b - 1}

SetMax(S) == CHOOSE m \in S : \A x \in S : x <= m

\* The block number of a reference: 0 for an anchor, else the block that
\* places it.
BlockNo(r) ==
    IF r \in Range(cart_indices) THEN 0
    ELSE CHOOSE b \in 1 .. Len(blocks) : r \in BlockAtoms(b)

\* C17: every block holds every atom of the z-matrix not placed before it
\* whose three references are anchors or atoms of earlier blocks, and no
\* other atom; in a block the atoms keep the order topological_sort gave
\* them; and when the loop has ended the number of the block of an atom is
\* one more than the largest block number of its references, an anchor
\* counting as block 0.
C17_BlockMaximality ==
    pc \in {"blocks", "validate"} =>
        /\ \A b \in 1 .. Len(blocks) :
               /\ BlockAtoms(b) = {a \in NotYetPlaced(b) : RefsOf(a) \subseteq AvailableAt(b)}
               /\ \A k \in 1 .. Len(blocks[b]) - 1 :
                      PosInSorted(blocks[b][k][1]) < PosInSorted(blocks[b][k + 1][1])
        /\ pc = "validate" =>
               \A b \in 1 .. Len(blocks) : \A a \in BlockAtoms(b) :
                   b = 1 + SetMax({BlockNo(r) : r \in RefsOf(a)})

\* C17 witness: the loop has ended with one block of the two atoms of the
\* z-matrix, both built from anchors only.
C17_Witness ==
    /\ pc = "validate"
    /\ Len(blocks) = 1
    /\ Len(blocks[1]) = 2
    /\ blocks[1][1][1] # blocks[1][2][1]
    /\ \A a \in BlockAtoms(1) : RefsOf(a) \subseteq Range(cart_indices)

\* C17 witness for a second block: its atom refers to the atom of the
\* first and is listed before it in the z-matrix.
C17_SecondBlockWitness ==
    /\ pc = "validate"
    /\ Len(blocks) = 2
    /\ blocks[2] # <<>>
    /\ blocks[2][1][1] = z_indices[1][1]
    /\ blocks[1][1][1] \in RefsOf(blocks[2][1][1])

\* The columns of the atoms of the z-matrix.
ZColumns == Range(idx.bond_indices) \cup Range(idx.angle_indices) \cup Range(idx.dih_indices)

\* The normalised bond and angle of atom a in row r of what forward was given.
BondOf(r, a) ==
    Normalized(calc_bonds(inds_for_atom(Refs(a)[1]), inds_for_atom(a), ret.x[r]),
               stats.mean_bonds[StatsOf(a)], stats.std_bonds[StatsOf(a)])

AngleOf(r, a) ==
    Normalized(calc_angles(inds_for_atom(Refs(a)[2]), inds_for_atom(Refs(a)[1]),
                           inds_for_atom(a), ret.x[r]),
               stats.mean_angles[StatsOf(a)], stats.std_angles[StatsOf(a)])

\* C18: forward of InternalCoordinateTransform changes no column but the
\* three columns 3a, 3a+1, 3a+2 of every atom a of the z-matrix, which get
\* the normalised bond, angle and dihedral; the columns of the anchors in
\* what it returns are those of the input; and the batch of the caller is
\* after the call what it was before.
C18_ForwardFrame ==
    ForwardDone =>
        \A r \in 1 .. Len(ret.x) :
            /\ Len(ret.out[r]) = Len(ret.x[r])
            /\ ZColumns = UNION {{3 * a, 3 * a + 1, 3 * a + 2} : a \in ZAtoms}
            /\ \A c \in 0 .. Len(ret.x[r]) - 1 :
                   c \notin ZColumns => ret.out[r][c + 1] = ret.x[r][c + 1]
            /\ \A a \in Range(cart_indices) : OutPos(r, a) = InPos(r, a)
            /\ \A a \in ZAtoms :
                   /\ ret.out[r][3 * a + 1] = BondOf(r, a)
                   /\ ret.out[r][3 * a + 2] = AngleOf(r, a)
                   /\ ret.out[r][3 * a + 3] =
                          RDiv(ret.steps[r].fixed[3 * a + 3], stats.std_dih[StatsOf(a)])
            /\ ret.steps[r].caller = ret.x[r]

\* C18 witness: a forward call that returned a row in which every atom of
\* the z-matrix has a column other than in the input, all of them numbers.
C18_Witness ==
    /\ ForwardDone
    /\ ZAtoms # {}
    /\ \E r \in 1 .. Len(ret.x) :
           /\ Representable(ret.out[r])
           /\ \A a \in ZAtoms : OutPos(r, a) # InPos(r, a)
           /\ ret.steps[r].caller # ret.out[r]

\* The places (block, row) at which atom a is built.
PlacesOf(a) ==
    {p \in (1 .. Len(blocks)) \X (1 .. MaxZ) :
        p[2] <= Len(blocks[p[1]]) /\ blocks[p[1]][p[2]][1] = a}

NoEmptyBlock == \A b \in 1 .. Len(blocks) : blocks[b] # <<>>

\* The block loop has ended (line 421 is reached).
LoopEnded == pc = "validate"

EachAtomOnce == \A a \in ZAtoms : Cardinality(PlacesOf(a)) = 1

\* Every reference of the z-matrix is an anchor or an atom of the z-matrix.
Resolvable == \A a \in ZAtoms : RefsOf(a) \subseteq Range(cart_indices) \cup ZAtoms

\* C19: whenever topological_sort has returned, the block loop of
\* _setup_indices ends, no block it appends is empty, and when it has ended
\* every atom of the z-matrix is in exactly one block.
C19_SchedulerTerminates ==
    /\ SortReturned ~> LoopEnded
    /\ [](pc \in {"blocks", "validate"} => NoEmptyBlock)
    /\ [](LoopEnded => EachAtomOnce)

\* What holds of the loop: when every reference is an anchor or an atom of
\* the z-matrix it ends or raises IndexError at a store to rev_perm, which
\* it does only when an anchor is an atom of the z-matrix as well; no block
\* is empty; and when it has ended every atom is in exactly one block.
C19_TerminatesWhenResolvable ==
    /\ (Resolvable /\ SortReturned) ~> (LoopEnded \/ pc = "IndexError")
    /\ [](Resolvable /\ pc \in {"blocks", "validate"} => NoEmptyBlock)
    /\ [](LoopEnded => EachAtomOnce)
    /\ [](pc = "IndexError" => Range(cart_indices) \cap ZAtoms # {})

\* A z-matrix topological_sort has accepted, with a reference that is
\* neither an anchor nor an atom of the z-matrix, and the loop at the bound
\* the model follows it to: no atom is left to place but the ones that were,
\* and every pass has appended an empty block.
C19_Witness ==
    /\ pc = "blocks"
    /\ ~Resolvable
    /\ sorted_z_indices # <<>>
    /\ Len(blocks) > Len(idx.rev_z_indices)
    /\ blocks[Len(blocks)] = <<>>

=============================================================================
